---- MODULE Spec2Model ----
(***************************************************************************)
(* Model of the sleep-formula calculation engine (useSleepState.ts) and    *)
(* the state around it.                                                    *)
(*                                                                         *)
(* Representation                                                          *)
(*   - A JavaScript string is a sequence of one-character strings, so      *)
(*     that split(':'), Number(), String() and padStart() are modelled by  *)
(*     what they do to the characters.                                     *)
(*   - Hours with two decimals (hoursSlept, OptimalTime.hours) are kept as *)
(*     integers counting hundredths of an hour; caffeine levels rounded to *)
(*     one decimal are kept as integers counting tenths of a milligram.    *)
(*   - A calendar Date is its local day number (days since 1970-01-01);    *)
(*     an instant (getTime(), timestamp) is a count of 15-minute ticks.    *)
(***************************************************************************)
EXTENDS Integers, Sequences, FiniteSets, TLC

VARIABLES
    args,   \* the explicit arguments of the engine call under examination
    env,    \* what the engine reads besides its arguments (wall clock, zone)
    fn,     \* the engine function applied last, "none" before any call
    ret     \* the value that call returned

vars == <<fn, args, env, ret>>

NoValue == "none"
NaN == "NaN"

(***************************************************************************)
(* JavaScript primitives used by the engine                                *)
(***************************************************************************)

DigitChars == <<"0", "1", "2", "3", "4", "5", "6", "7", "8", "9">>

IsDigit(c) == \E i \in 1..10 : DigitChars[i] = c

DigitVal(c) == (CHOOSE i \in 1..10 : DigitChars[i] = c) - 1

Abs(x) == IF x < 0 THEN -x ELSE x

\* The % operator of JavaScript: the remainder takes the sign of the dividend.
JsRem(a, b) == IF a >= 0 THEN a % b ELSE -((-a) % b)

\* Math.floor(n / d) for d > 0.
MathFloor(n, d) == n \div d

\* Math.round(n / d) for d > 0: the nearest integer, halves rounded up.
MathRound(n, d) == (2 * n + d) \div (2 * d)

Max(a, b) == IF a >= b THEN a ELSE b

RECURSIVE NatToStr(_)
NatToStr(n) ==
    IF n < 10 THEN <<DigitChars[n + 1]>>
    ELSE NatToStr(n \div 10) \o <<DigitChars[(n % 10) + 1]>>

\* String(n) for an integer n.
ToStr(n) == IF n < 0 THEN <<"-">> \o NatToStr(-n) ELSE NatToStr(n)

\* s.padStart(2, '0')
PadStart2(s) == IF Len(s) >= 2 THEN s ELSE IF Len(s) = 1 THEN <<"0">> \o s ELSE <<"0", "0">>

RECURSIVE DigitsToNat(_)
DigitsToNat(s) ==
    IF Len(s) = 0 THEN 0
    ELSE 10 * DigitsToNat(SubSeq(s, 1, Len(s) - 1)) + DigitVal(s[Len(s)])

IsDigits(s) == \A i \in 1..Len(s) : IsDigit(s[i])

\* Number(s) for a string of decimal digits with an optional minus sign (the
\* empty string is 0); any other string is taken to convert to NaN.
Number(s) ==
    IF IsDigits(s) THEN DigitsToNat(s)
    ELSE IF Len(s) >= 2 /\ s[1] = "-" /\ IsDigits(Tail(s)) THEN -DigitsToNat(Tail(s))
    ELSE NaN

\* s.split(sep) for a one-character separator.
RECURSIVE Split(_, _)
Split(s, sep) ==
    IF \E i \in 1..Len(s) : s[i] = sep
    THEN LET i == CHOOSE k \in 1..Len(s) : s[k] = sep /\ \A j \in 1..(k - 1) : s[j] # sep
         IN  <<SubSeq(s, 1, i - 1)>> \o Split(SubSeq(s, i + 1, Len(s)), sep)
    ELSE <<s>>

(***************************************************************************)
(* Constants of the engine                                                 *)
(***************************************************************************)

SLEEP_CYCLE_MINUTES == 90
FALL_ASLEEP_MINUTES == 15
CAFFEINE_HALF_LIFE_HOURS == 5

(***************************************************************************)
(* Time utilities                                                          *)
(***************************************************************************)

parseTime(timeStr) ==
    LET parts == Split(timeStr, ":")
        nums == [i \in 1..Len(parts) |-> Number(parts[i])]
    IN  [hours |-> nums[1],
         minutes |-> IF Len(nums) >= 2 THEN nums[2] ELSE NoValue]

padTime(hours, minutes) ==
    LET h == JsRem(JsRem(hours, 24) + 24, 24)
    IN  PadStart2(ToStr(h)) \o <<":">> \o PadStart2(ToStr(minutes))

timeToMinutes(timeStr) ==
    LET t == parseTime(timeStr)
    IN  t.hours * 60 + t.minutes

addMinutesToTimeNoWrap(timeStr, minutesToAdd) ==
    LET t == parseTime(timeStr)
        totalMinutes == t.hours * 60 + t.minutes + minutesToAdd
        resultHours == MathFloor(JsRem(totalMinutes, 1440), 60)
        resultMinutes == JsRem(JsRem(totalMinutes, 1440), 60)
    IN  padTime(resultHours, resultMinutes)

addMinutesToTime(timeStr, minutesToAdd) ==
    LET t == parseTime(timeStr)
        totalMinutes == t.hours * 60 + t.minutes + minutesToAdd
        resultHours == MathFloor(JsRem(JsRem(totalMinutes, 1440) + 1440, 1440), 60)
        resultMinutes == JsRem(JsRem(JsRem(totalMinutes, 1440) + 1440, 1440), 60)
    IN  padTime(resultHours, resultMinutes)

subtractMinutesFromTimeNoNegate(timeStr, minutesToSubtract) ==
    addMinutesToTime(timeStr, minutesToSubtract)

subtractMinutesFromTime(timeStr, minutesToSubtract) ==
    addMinutesToTime(timeStr, -minutesToSubtract)

calculateHoursSleptStrict(bedtime, wakeTime) ==
    LET bedMinutes == timeToMinutes(bedtime)
        wakeMinutes0 == timeToMinutes(wakeTime)
        wakeMinutes == IF wakeMinutes0 < bedMinutes THEN wakeMinutes0 + 24 * 60
                       ELSE wakeMinutes0
        diffMinutes == wakeMinutes - bedMinutes
    IN  MathRound(diffMinutes * 100, 60)

\* The result counts hundredths of an hour: Math.round((diff / 60) * 100).
calculateHoursSlept(bedtime, wakeTime) ==
    LET bedMinutes == timeToMinutes(bedtime)
        wakeMinutes0 == timeToMinutes(wakeTime)
        wakeMinutes == IF wakeMinutes0 <= bedMinutes THEN wakeMinutes0 + 24 * 60
                       ELSE wakeMinutes0
        diffMinutes == wakeMinutes - bedMinutes
    IN  MathRound(diffMinutes * 100, 60)

qualityFromCyclesShifted(cycles) ==
    IF cycles <= 2 THEN "poor"
    ELSE IF cycles = 3 THEN "fair"
    ELSE IF cycles = 4 THEN "good"
    ELSE IF cycles = 5 THEN "good"
    ELSE "great"

qualityFromCycles(cycles) ==
    IF cycles <= 2 THEN "poor"
    ELSE IF cycles = 3 THEN "fair"
    ELSE IF cycles = 4 THEN "good"
    ELSE "great"

(***************************************************************************)
(* Sleep-cycle calculator                                                  *)
(***************************************************************************)

BedtimeCandidateNoLatency(targetTime, cycles) ==
    LET sleepMinutes == cycles * SLEEP_CYCLE_MINUTES
        totalMinutes == sleepMinutes
    IN  [time |-> subtractMinutesFromTime(targetTime, totalMinutes),
         cycles |-> cycles,
         hours |-> MathRound(sleepMinutes * 100, 60),
         quality |-> qualityFromCycles(cycles)]

\* The body of the loop of 'bedtime' mode: the candidate pushed for `cycles`.
BedtimeCandidate(targetTime, cycles) ==
    LET sleepMinutes == cycles * SLEEP_CYCLE_MINUTES
        totalMinutes == sleepMinutes + FALL_ASLEEP_MINUTES
    IN  [time |-> subtractMinutesFromTime(targetTime, totalMinutes),
         cycles |-> cycles,
         hours |-> MathRound(sleepMinutes * 100, 60),
         quality |-> qualityFromCycles(cycles)]

\* The body of the loop of 'wakeup' mode.
WakeupCandidate(targetTime, cycles) ==
    LET sleepMinutes == cycles * SLEEP_CYCLE_MINUTES
        totalMinutes == sleepMinutes + FALL_ASLEEP_MINUTES
    IN  [time |-> addMinutesToTime(targetTime, totalMinutes),
         cycles |-> cycles,
         hours |-> MathRound(sleepMinutes * 100, 60),
         quality |-> qualityFromCycles(cycles)]

\* for (let cycles = 6; cycles >= 1; cycles--) results.push(...)
RECURSIVE BedtimeLoop(_, _, _)
BedtimeLoop(targetTime, cycles, results) ==
    IF cycles >= 1
    THEN BedtimeLoop(targetTime, cycles - 1,
                     Append(results, BedtimeCandidate(targetTime, cycles)))
    ELSE results

\* for (let cycles = 1; cycles <= 6; cycles++) results.push(...)
RECURSIVE WakeupLoop(_, _, _)
WakeupLoop(targetTime, cycles, results) ==
    IF cycles <= 6
    THEN WakeupLoop(targetTime, cycles + 1,
                    Append(results, WakeupCandidate(targetTime, cycles)))
    ELSE results

calculateOptimalTimesFiltered(targetTime, mode) ==
    IF mode = "bedtime"
    THEN BedtimeLoop(targetTime, 5, <<>>)
    ELSE WakeupLoop(targetTime, 2, <<>>)

calculateOptimalTimes(targetTime, mode) ==
    IF mode = "bedtime"
    THEN BedtimeLoop(targetTime, 6, <<>>)
    ELSE WakeupLoop(targetTime, 1, <<>>)

(***************************************************************************)
(* Caffeine decay model                                                    *)
(*                                                                         *)
(* Instants (Date.getTime(), entry.timestamp) are counted in ticks of 15   *)
(* minutes, so one hour is 4 ticks, a timeline step of 30 * 60 * 1000 ms   *)
(* is 2 ticks and elapsedHours / CAFFEINE_HALF_LIFE_HOURS is ticks / 20.   *)
(* Math.pow(0.5, j / 20) is tabulated for j = 0..19 in units of 1/100000;  *)
(* amounts and sums are carried in that unit until Math.round.             *)
(***************************************************************************)

PowFrac ==
    <<100000, 96594, 93303, 90125, 87055, 84090, 81225, 78458, 75786, 73204,
      70711, 68302, 65975, 63728, 61557, 59460, 57435, 55478, 53589, 51763>>

RECURSIVE TwoToThe(_)
TwoToThe(n) == IF n <= 0 THEN 1 ELSE 2 * TwoToThe(n - 1)

\* Math.pow(0.5, elapsedHours / CAFFEINE_HALF_LIFE_HOURS) in units of
\* 1/100000, for an elapsed time of `ticks` quarter hours.
Pow05(ticks) ==
    LET period == 4 * CAFFEINE_HALF_LIFE_HOURS
        q == ticks \div period
        r == ticks % period
    IN  IF q >= 0 THEN MathRound(PowFrac[r + 1], TwoToThe(q))
        ELSE PowFrac[r + 1] * TwoToThe(-q)

RECURSIVE CaffeineLoopInclusive(_, _, _, _)
CaffeineLoopInclusive(entries, atMs, i, total) ==
    IF i > Len(entries) THEN total
    ELSE LET entry == entries[i]
             elapsedMs == atMs - entry.timestamp
         IN  IF elapsedMs <= 0
             THEN CaffeineLoopInclusive(entries, atMs, i + 1, total)
             ELSE CaffeineLoopInclusive(entries, atMs, i + 1,
                                        total + entry.amountMg * Pow05(elapsedMs))

\* for (const entry of entries) { ... total += remaining }
RECURSIVE CaffeineLoop(_, _, _, _)
CaffeineLoop(entries, atMs, i, total) ==
    IF i > Len(entries) THEN total
    ELSE LET entry == entries[i]
             elapsedMs == atMs - entry.timestamp
         IN  IF elapsedMs < 0
             THEN CaffeineLoop(entries, atMs, i + 1, total)
             ELSE CaffeineLoop(entries, atMs, i + 1,
                               total + entry.amountMg * Pow05(elapsedMs))

\* The result counts tenths of a milligram: Math.round(total * 10).
calculateCaffeineLevel(entries, atTime) ==
    MathRound(CaffeineLoop(entries, atTime, 1, 0), 10000)

\* Math.min(...entries.map((e) => e.timestamp)) for non-empty entries.
MinTimestamp(entries) ==
    CHOOSE t \in {entries[i].timestamp : i \in 1..Len(entries)} :
        \A i \in 1..Len(entries) : t <= entries[i].timestamp

\* new Date(ts) followed by setMinutes(0, 0, 0): the start of the hour of the
\* local clock, which runs tzOffset ticks ahead of the instant's count.
StartOfLocalHour(ts, tzOffset) ==
    LET local == ts + tzOffset
    IN  (local - (local % 4)) - tzOffset

RECURSIVE TimelineLoop(_, _, _, _, _)
TimelineLoop(entries, startTime, i, totalPoints, timeline) ==
    IF i < totalPoints
    THEN LET pointTime == startTime + i * 2
             level == calculateCaffeineLevel(entries, pointTime)
         IN  TimelineLoop(entries, startTime, i + 1, totalPoints,
                          Append(timeline, [hour |-> MathRound(i * 50, 1),
                                            level |-> MathRound(level, 1)]))
    ELSE timeline

calculateCaffeineTimelineFirstEntry(entries, tzOffset) ==
    IF Len(entries) = 0 THEN <<>>
    ELSE LET earliestTs == entries[1].timestamp
             startTime == StartOfLocalHour(earliestTs, tzOffset)
         IN  TimelineLoop(entries, startTime, 0, 49, <<>>)

\* Each point's hour counts hundredths of an hour, its level tenths of a mg.
calculateCaffeineTimeline(entries, tzOffset) ==
    IF Len(entries) = 0 THEN <<>>
    ELSE LET earliestTs == MinTimestamp(entries)
             startTime == StartOfLocalHour(earliestTs, tzOffset)
         IN  TimelineLoop(entries, startTime, 0, 49, <<>>)

(***************************************************************************)
(* Dates.  A Date is its local day number, Day(t) of ECMAScript counted on *)
(* the local calendar; the accessors follow the ECMAScript definitions of  *)
(* DayFromYear, YearFromTime, MonthFromTime, DateFromTime, WeekDay and     *)
(* MakeDay.  Months are 0-based as in getMonth().                          *)
(***************************************************************************)

DAY_LABELS == <<"il", "wol", "hwa", "su", "mok", "geum", "to">>

DayFromYear(y) ==
    365 * (y - 1970) + ((y - 1969) \div 4) - ((y - 1901) \div 100) + ((y - 1601) \div 400)

\* DaysInYear(y) = 366
InLeapYear(y) ==
    IF y % 4 # 0 THEN FALSE
    ELSE IF y % 100 # 0 THEN TRUE
    ELSE y % 400 = 0

getFullYear(t) ==
    CHOOSE y \in (1969 + (t \div 366))..(1971 + (t \div 365)) :
        DayFromYear(y) <= t /\ t < DayFromYear(y + 1)

CommonYearMonthStarts == <<0, 31, 59, 90, 120, 151, 181, 212, 243, 273, 304, 334, 365>>

LeapYearMonthStarts == <<0, 31, 60, 91, 121, 152, 182, 213, 244, 274, 305, 335, 366>>

\* Days before the first of each month, and the length of the year.
MonthStarts(y) == IF InLeapYear(y) THEN LeapYearMonthStarts ELSE CommonYearMonthStarts

\* MonthFromTime for the day n (from 0) of the year y.
MonthOfYearDay(y, n) ==
    LET starts == MonthStarts(y)
    IN  CHOOSE m \in 0..11 : starts[m + 1] <= n /\ n < starts[m + 2]

getMonth(t) ==
    LET y == getFullYear(t)
    IN  MonthOfYearDay(y, t - DayFromYear(y))

getDate(t) ==
    LET y == getFullYear(t)
        dayWithinYear == t - DayFromYear(y)
        m == MonthOfYearDay(y, dayWithinYear)
    IN  dayWithinYear - MonthStarts(y)[m + 1] + 1

getDay(t) == (t + 4) % 7

MakeDay(year, month, date) ==
    LET ym == year + (month \div 12)
        mn == month % 12
    IN  DayFromYear(ym) + MonthStarts(ym)[mn + 1] + date - 1

\* date.setDate(n): the day n of the month of t, n of any sign or size.
setDate(t, n) == MakeDay(getFullYear(t), getMonth(t), n)

\* new Date() when the local clock shows the calendar date `today`.
NewDate(today) == MakeDay(today.year, today.month - 1, today.date)

DateISOZeroBasedMonth(t) ==
    ToStr(getFullYear(t)) \o <<"-">> \o PadStart2(ToStr(getMonth(t)))
        \o <<"-">> \o PadStart2(ToStr(getDate(t)))

\* year + '-' + String(month + 1).padStart(2, '0') + '-' + String(date).padStart(2, '0')
DateISO(t) ==
    ToStr(getFullYear(t)) \o <<"-">> \o PadStart2(ToStr(getMonth(t) + 1))
        \o <<"-">> \o PadStart2(ToStr(getDate(t)))

(***************************************************************************)
(* Sleep-debt aggregator                                                   *)
(***************************************************************************)

FindLastRecord(records, dateStr) ==
    IF \E k \in 1..Len(records) : records[k].date = dateStr
    THEN <<records[CHOOSE k \in 1..Len(records) :
                      /\ records[k].date = dateStr
                      /\ \A j \in (k + 1)..Len(records) : records[j].date # dateStr]>>
    ELSE <<>>

\* records.find((r) => r.date === dateStr): <<r>> for the first match r, and
\* <<>> for undefined.
FindRecord(records, dateStr) ==
    IF \E k \in 1..Len(records) : records[k].date = dateStr
    THEN <<records[CHOOSE k \in 1..Len(records) :
                      /\ records[k].date = dateStr
                      /\ \A j \in 1..(k - 1) : records[j].date # dateStr]>>
    ELSE <<>>

DebtDayUnclamped(records, recommendedHours, today, i) ==
    LET date == setDate(today, getDate(today) - i)
        dateStr == DateISO(date)
        dayLabel == DAY_LABELS[getDay(date) + 1]
        record == FindRecord(records, dateStr)
        hours == IF record # <<>> THEN record[1].hoursSlept ELSE 0
        debt == recommendedHours - hours
    IN  [day |-> dateStr, dayLabel |-> dayLabel, hours |-> hours, debt |-> debt]

\* The body of the loop: the entry pushed for the day i days before today.
DebtDay(records, recommendedHours, today, i) ==
    LET date == setDate(today, getDate(today) - i)
        dateStr == DateISO(date)
        dayLabel == DAY_LABELS[getDay(date) + 1]
        record == FindRecord(records, dateStr)
        hours == IF record # <<>> THEN record[1].hoursSlept ELSE 0
        debt == Max(0, recommendedHours - hours)
    IN  [day |-> dateStr, dayLabel |-> dayLabel, hours |-> hours, debt |-> debt]

\* for (let i = 6; i >= 0; i--) last7Days.push(...)
RECURSIVE DebtLoop(_, _, _, _, _)
DebtLoop(records, recommendedHours, today, i, last7Days) ==
    IF i >= 0
    THEN DebtLoop(records, recommendedHours, today, i - 1,
                  Append(last7Days, DebtDay(records, recommendedHours, today, i)))
    ELSE last7Days

RECURSIVE SumDebt(_)
SumDebt(days) == IF days = <<>> THEN 0 ELSE Head(days).debt + SumDebt(Tail(days))

RECURSIVE SumHours(_)
SumHours(days) == IF days = <<>> THEN 0 ELSE Head(days).hours + SumHours(Tail(days))

HasHoursOrZero(d) == d.hours >= 0

HasHours(d) == d.hours > 0

SleepDebtResult(last7Days) ==
    LET totalDebt == SumDebt(last7Days)
        daysWithRecords == SelectSeq(last7Days, HasHours)
        avgHours == IF Len(daysWithRecords) > 0
                    THEN MathRound(SumHours(daysWithRecords), Len(daysWithRecords))
                    ELSE 0
    IN  [daily |-> last7Days, totalDebt |-> MathRound(totalDebt, 1), avgHours |-> avgHours]

\* `now` is the calendar date the clock shows when new Date() is taken.  Hours
\* and debts count hundredths of an hour.
calculateSleepDebt(records, recommendedHours, now) ==
    LET today == NewDate(now)
    IN  SleepDebtResult(DebtLoop(records, recommendedHours, today, 6, <<>>))

(***************************************************************************)
(* averageTimeStr: the circular mean of clock times.  Angles are counted   *)
(* in half minutes (2880 to the circle); Math.sin and Math.cos are read    *)
(* from a table in units of 1e-4, so the sums carry a rounding error.      *)
(* Math.atan2 followed by Math.round picks the minute whose half-open      *)
(* sector [k - 1/2, k + 1/2) holds the direction of the summed vector;     *)
(* where the table cannot tell two minutes apart (a direction on a sector  *)
(* border, or a vector that cancels out) every minute it cannot exclude is *)
(* an outcome.                                                             *)
(***************************************************************************)

\* 10000 * sin(2 * pi * j / 2880) for j = 0..720, at index j + 1.
QuarterSin ==
    <<
      0, 22, 44, 65, 87, 109, 131, 153, 175, 196, 218, 240,
      262, 284, 305, 327, 349, 371, 393, 414, 436, 458, 480, 502,
      523, 545, 567, 589, 610, 632, 654, 676, 698, 719, 741, 763,
      785, 806, 828, 850, 872, 893, 915, 937, 958, 980, 1002, 1024,
      1045, 1067, 1089, 1110, 1132, 1154, 1175, 1197, 1219, 1240, 1262, 1284,
      1305, 1327, 1349, 1370, 1392, 1413, 1435, 1457, 1478, 1500, 1521, 1543,
      1564, 1586, 1607, 1629, 1650, 1672, 1693, 1715, 1736, 1758, 1779, 1801,
      1822, 1844, 1865, 1887, 1908, 1930, 1951, 1972, 1994, 2015, 2036, 2058,
      2079, 2100, 2122, 2143, 2164, 2186, 2207, 2228, 2250, 2271, 2292, 2313,
      2334, 2356, 2377, 2398, 2419, 2440, 2462, 2483, 2504, 2525, 2546, 2567,
      2588, 2609, 2630, 2651, 2672, 2693, 2714, 2735, 2756, 2777, 2798, 2819,
      2840, 2861, 2882, 2903, 2924, 2945, 2965, 2986, 3007, 3028, 3049, 3069,
      3090, 3111, 3132, 3152, 3173, 3194, 3214, 3235, 3256, 3276, 3297, 3317,
      3338, 3359, 3379, 3400, 3420, 3441, 3461, 3482, 3502, 3523, 3543, 3563,
      3584, 3604, 3624, 3645, 3665, 3685, 3706, 3726, 3746, 3766, 3786, 3807,
      3827, 3847, 3867, 3887, 3907, 3927, 3947, 3967, 3987, 4007, 4027, 4047,
      4067, 4087, 4107, 4127, 4147, 4167, 4187, 4206, 4226, 4246, 4266, 4285,
      4305, 4325, 4344, 4364, 4384, 4403, 4423, 4442, 4462, 4481, 4501, 4520,
      4540, 4559, 4579, 4598, 4617, 4637, 4656, 4675, 4695, 4714, 4733, 4752,
      4772, 4791, 4810, 4829, 4848, 4867, 4886, 4905, 4924, 4943, 4962, 4981,
      5000, 5019, 5038, 5057, 5075, 5094, 5113, 5132, 5150, 5169, 5188, 5206,
      5225, 5244, 5262, 5281, 5299, 5318, 5336, 5355, 5373, 5391, 5410, 5428,
      5446, 5465, 5483, 5501, 5519, 5538, 5556, 5574, 5592, 5610, 5628, 5646,
      5664, 5682, 5700, 5718, 5736, 5754, 5771, 5789, 5807, 5825, 5842, 5860,
      5878, 5895, 5913, 5931, 5948, 5966, 5983, 6001, 6018, 6036, 6053, 6070,
      6088, 6105, 6122, 6139, 6157, 6174, 6191, 6208, 6225, 6242, 6259, 6276,
      6293, 6310, 6327, 6344, 6361, 6378, 6394, 6411, 6428, 6445, 6461, 6478,
      6494, 6511, 6528, 6544, 6561, 6577, 6593, 6610, 6626, 6643, 6659, 6675,
      6691, 6708, 6724, 6740, 6756, 6772, 6788, 6804, 6820, 6836, 6852, 6868,
      6884, 6899, 6915, 6931, 6947, 6962, 6978, 6994, 7009, 7025, 7040, 7056,
      7071, 7086, 7102, 7117, 7133, 7148, 7163, 7178, 7193, 7209, 7224, 7239,
      7254, 7269, 7284, 7299, 7314, 7328, 7343, 7358, 7373, 7387, 7402, 7417,
      7431, 7446, 7461, 7475, 7490, 7504, 7518, 7533, 7547, 7561, 7576, 7590,
      7604, 7618, 7632, 7646, 7660, 7674, 7688, 7702, 7716, 7730, 7744, 7758,
      7771, 7785, 7799, 7812, 7826, 7840, 7853, 7867, 7880, 7894, 7907, 7920,
      7934, 7947, 7960, 7973, 7986, 7999, 8013, 8026, 8039, 8052, 8064, 8077,
      8090, 8103, 8116, 8128, 8141, 8154, 8166, 8179, 8192, 8204, 8216, 8229,
      8241, 8254, 8266, 8278, 8290, 8303, 8315, 8327, 8339, 8351, 8363, 8375,
      8387, 8399, 8410, 8422, 8434, 8446, 8457, 8469, 8480, 8492, 8504, 8515,
      8526, 8538, 8549, 8560, 8572, 8583, 8594, 8605, 8616, 8627, 8638, 8649,
      8660, 8671, 8682, 8693, 8704, 8714, 8725, 8736, 8746, 8757, 8767, 8778,
      8788, 8799, 8809, 8819, 8829, 8840, 8850, 8860, 8870, 8880, 8890, 8900,
      8910, 8920, 8930, 8940, 8949, 8959, 8969, 8978, 8988, 8997, 9007, 9016,
      9026, 9035, 9045, 9054, 9063, 9072, 9081, 9091, 9100, 9109, 9118, 9127,
      9135, 9144, 9153, 9162, 9171, 9179, 9188, 9197, 9205, 9214, 9222, 9230,
      9239, 9247, 9255, 9264, 9272, 9280, 9288, 9296, 9304, 9312, 9320, 9328,
      9336, 9344, 9351, 9359, 9367, 9374, 9382, 9389, 9397, 9404, 9412, 9419,
      9426, 9434, 9441, 9448, 9455, 9462, 9469, 9476, 9483, 9490, 9497, 9504,
      9511, 9517, 9524, 9531, 9537, 9544, 9550, 9557, 9563, 9569, 9576, 9582,
      9588, 9594, 9600, 9607, 9613, 9619, 9625, 9630, 9636, 9642, 9648, 9654,
      9659, 9665, 9670, 9676, 9681, 9687, 9692, 9698, 9703, 9708, 9713, 9719,
      9724, 9729, 9734, 9739, 9744, 9749, 9753, 9758, 9763, 9768, 9772, 9777,
      9781, 9786, 9790, 9795, 9799, 9804, 9808, 9812, 9816, 9820, 9825, 9829,
      9833, 9837, 9840, 9844, 9848, 9852, 9856, 9859, 9863, 9866, 9870, 9873,
      9877, 9880, 9884, 9887, 9890, 9893, 9897, 9900, 9903, 9906, 9909, 9912,
      9914, 9917, 9920, 9923, 9925, 9928, 9931, 9933, 9936, 9938, 9941, 9943,
      9945, 9947, 9950, 9952, 9954, 9956, 9958, 9960, 9962, 9964, 9966, 9967,
      9969, 9971, 9973, 9974, 9976, 9977, 9979, 9980, 9981, 9983, 9984, 9985,
      9986, 9987, 9988, 9990, 9990, 9991, 9992, 9993, 9994, 9995, 9995, 9996,
      9997, 9997, 9998, 9998, 9998, 9999, 9999, 9999, 10000, 10000, 10000, 10000,
      10000
    >>

\* Math.sin of the angle of j half minutes, in units of 1e-4.
SinHalf(j) ==
    LET r == j % 2880
    IN  IF r <= 720 THEN QuarterSin[r + 1]
        ELSE IF r <= 1440 THEN QuarterSin[1440 - r + 1]
        ELSE IF r <= 2160 THEN 0 - QuarterSin[r - 1440 + 1]
        ELSE 0 - QuarterSin[2880 - r + 1]

\* Math.cos of the angle of j half minutes, in units of 1e-4.
CosHalf(j) == SinHalf(j + 720)

\* radians.reduce(... + Math.sin(r)) and radians.reduce(... + Math.cos(r))
RECURSIVE SinSum(_)
SinSum(times) ==
    IF times = <<>> THEN 0
    ELSE SinHalf(2 * timeToMinutes(Head(times))) + SinSum(Tail(times))

RECURSIVE CosSum(_)
CosSum(times) ==
    IF times = <<>> THEN 0
    ELSE CosHalf(2 * timeToMinutes(Head(times))) + CosSum(Tail(times))

\* The largest error, in units of 1e-8, of a product of the summed vector of
\* n table values with a table value.
TrigMargin(n) == 15000 * n

\* Math.atan2(sinSum, cosSum) may lie between the angles of lo and hi half
\* minutes (less than half a circle apart).
InSector(lo, hi, sinSum, cosSum, margin) ==
    LET mid == (lo + hi) \div 2
    IN  /\ CosHalf(lo) * sinSum - SinHalf(lo) * cosSum >= 0 - margin
        /\ CosHalf(hi) * sinSum - SinHalf(hi) * cosSum <= margin
        /\ CosHalf(mid) * cosSum + SinHalf(mid) * sinSum >= 0 - margin

\* The values avgMinutes can take: Math.round((avgRad / (2 * Math.PI)) * 1440)
\* with avgRad in [0, 2 * pi).
AvgMinutes(times) ==
    LET n == Len(times)
        sinSum == SinSum(times)
        cosSum == CosSum(times)
        margin == TrigMargin(n)
        hours == {h \in 0..23 :
                    InSector(120 * h - 2, 120 * h + 122, sinSum, cosSum, margin)}
    IN  {k \in UNION {(60 * h)..(60 * h + 60) : h \in hours} :
            InSector(IF k = 0 THEN 0 ELSE 2 * k - 1,
                     IF k = 1440 THEN 2880 ELSE 2 * k + 1,
                     sinSum, cosSum, margin)}

RECURSIVE SumMinutes(_)
SumMinutes(times) ==
    IF times = <<>> THEN 0 ELSE timeToMinutes(Head(times)) + SumMinutes(Tail(times))

averageTimeStrArithmetic(times) ==
    IF Len(times) = 0 THEN {padTime(0, 0)}
    ELSE LET avgMinutes == MathRound(SumMinutes(times), Len(times))
         IN  {padTime(MathFloor(avgMinutes, 60), JsRem(avgMinutes, 60))}

\* The strings averageTimeStr(times) can return.
averageTimeStr(times) ==
    IF Len(times) = 0 THEN {padTime(0, 0)}
    ELSE {padTime(MathFloor(avgMinutes, 60), JsRem(avgMinutes, 60)) :
            avgMinutes \in AvgMinutes(times)}

(***************************************************************************)
(* Instants on the local clock.  An instant t (15-minute ticks) is shown   *)
(* by a clock running tzOffset ticks ahead; a day has 96 ticks.            *)
(***************************************************************************)

\* The local day number of new Date(t).
LocalDay(t, tzOffset) == (t + tzOffset) \div 96

\* new Date(t).getHours()
getHours(t, tzOffset) == ((t + tzOffset) % 96) \div 4

\* new Date(t).toDateString(): weekday, month, day of month and year.
toDateString(t, tzOffset) ==
    LET d == LocalDay(t, tzOffset)
    IN  <<getDay(d), getMonth(d), getDate(d), getFullYear(d)>>

\* The instant at which the local clock shows the date `today` and the tick
\* `time` of the day.
InstantOf(today, time, tzOffset) == (NewDate(today) * 96 + time) - tzOffset

(***************************************************************************)
(* Tip engine.  A tip is its icon and its title (a key standing for the    *)
(* title text); the description text is left out.  stats.currentCaffeineMg *)
(* counts tenths of a mg, the hour fields hundredths of an hour.           *)
(***************************************************************************)

Tip(icon, title) == [icon |-> icon, title |-> title]

TipCaffeineHigh == Tip("ri-cup-line", "caffeine-high")
TipCaffeineModerate == Tip("ri-cup-line", "caffeine-moderate")
TipDebtSevere == Tip("ri-error-warning-line", "debt-severe")
TipDebtModerate == Tip("ri-alarm-warning-line", "debt-moderate")
TipShortSleep == Tip("ri-moon-foggy-line", "short-sleep")
TipRegularBedtime == Tip("ri-time-line", "regular-bedtime")
TipLateCaffeine == Tip("ri-forbid-line", "late-caffeine")
TipBlueLight == Tip("ri-smartphone-line", "blue-light")
TipRoomTemperature == Tip("ri-temp-cold-line", "room-temperature")
TipVariability == Tip("ri-bar-chart-line", "variability")
TipExercise == Tip("ri-run-line", "exercise")
TipMeal == Tip("ri-restaurant-line", "meal")

PushCaffeineTip(tips, stats) ==
    IF stats.currentCaffeineMg > 2000 THEN Append(tips, TipCaffeineHigh)
    ELSE IF stats.currentCaffeineMg > 1000 THEN Append(tips, TipCaffeineModerate)
    ELSE tips

PushDebtTipInclusive(tips, stats) ==
    IF stats.totalDebtHours >= 1000 THEN Append(tips, TipDebtSevere)
    ELSE IF stats.totalDebtHours >= 500 THEN Append(tips, TipDebtModerate)
    ELSE tips

PushDebtTip(tips, stats) ==
    IF stats.totalDebtHours > 1000 THEN Append(tips, TipDebtSevere)
    ELSE IF stats.totalDebtHours > 500 THEN Append(tips, TipDebtModerate)
    ELSE tips

PushShortSleepTip(tips, stats) ==
    IF stats.avgHoursThisWeek > 0 /\ stats.avgHoursThisWeek < 600
    THEN Append(tips, TipShortSleep)
    ELSE tips

PushRegularBedtimeTip(tips, stats) ==
    IF stats.totalRecords >= 3 THEN Append(tips, TipRegularBedtime) ELSE tips

\* caffeineEntries.filter(...): same day as now and at or after 4 PM.
EveningEntries(caffeineEntries, now, tzOffset) ==
    LET IsEvening(entry) ==
            /\ toDateString(entry.timestamp, tzOffset) = toDateString(now, tzOffset)
            /\ getHours(entry.timestamp, tzOffset) >= 16
    IN  SelectSeq(caffeineEntries, IsEvening)

PushLateCaffeineTip(tips, caffeineEntries, now, tzOffset) ==
    IF Len(EveningEntries(caffeineEntries, now, tzOffset)) > 0
    THEN Append(tips, TipLateCaffeine)
    ELSE tips

PushHygieneTips(tips) == Append(Append(tips, TipBlueLight), TipRoomTemperature)

PushVariabilityTip(tips, stats) ==
    IF stats.longestSleep - stats.shortestSleep > 300 /\ stats.shortestSleep > 0
    THEN Append(tips, TipVariability)
    ELSE tips

PushMealExerciseTips(tips) == Append(Append(tips, TipMeal), TipExercise)

PushExerciseMealTips(tips) == Append(Append(tips, TipExercise), TipMeal)

\* The tips array before the final slice.
AllTips(stats, caffeineEntries, now, tzOffset) ==
    LET t1 == PushCaffeineTip(<<>>, stats)
        t2 == PushDebtTip(t1, stats)
        t3 == PushShortSleepTip(t2, stats)
        t4 == PushRegularBedtimeTip(t3, stats)
        t5 == PushLateCaffeineTip(t4, caffeineEntries, now, tzOffset)
        t6 == PushHygieneTips(t5)
        t7 == PushVariabilityTip(t6, stats)
    IN  PushExerciseMealTips(t7)

\* tips.slice(0, 8)
SliceFirst8(tips) == SubSeq(tips, 1, IF Len(tips) < 8 THEN Len(tips) ELSE 8)

generateSleepTipsLastEight(stats, caffeineEntries, now, tzOffset) ==
    LET tips == AllTips(stats, caffeineEntries, now, tzOffset)
    IN  SubSeq(tips, IF Len(tips) < 8 THEN 1 ELSE Len(tips) - 7, Len(tips))

\* `now` is the instant new Date() takes, tzOffset the zone of the clock.
generateSleepTips(stats, caffeineEntries, now, tzOffset) ==
    SliceFirst8(AllTips(stats, caffeineEntries, now, tzOffset))

(***************************************************************************)
(* The stats of useSleepState and the values App derives from the state.   *)
(***************************************************************************)

\* The UTF-16 code unit of a character of a date or clock string.
CharCode(c) ==
    IF c = "-" THEN 45
    ELSE IF IsDigit(c) THEN 48 + DigitVal(c)
    ELSE IF c = ":" THEN 58
    ELSE 97

\* a < b on strings: the first differing code unit decides, a proper prefix
\* is smaller.
RECURSIVE StrLess(_, _)
StrLess(a, b) ==
    IF b = <<>> THEN FALSE
    ELSE IF a = <<>> THEN TRUE
    ELSE IF CharCode(Head(a)) # CharCode(Head(b))
         THEN CharCode(Head(a)) < CharCode(Head(b))
    ELSE StrLess(Tail(a), Tail(b))

\* a <= b on strings.
StrLeq(a, b) == ~StrLess(b, a)

\* getTodayISO() when the clock shows the day number today.
getTodayISO(today) ==
    ToStr(getFullYear(today)) \o <<"-">> \o PadStart2(ToStr(getMonth(today) + 1))
        \o <<"-">> \o PadStart2(ToStr(getDate(today)))

\* sleepRecords.filter((r) => r.date >= sevenDaysAgoISO && r.date <= today)
WeekRecords(sleepRecords, now) ==
    LET today == getTodayISO(now)
        sevenDaysAgo == setDate(now, getDate(now) - 7)
        sevenDaysAgoISO == DateISO(sevenDaysAgo)
        InWeek(r) == StrLeq(sevenDaysAgoISO, r.date) /\ StrLeq(r.date, today)
    IN  SelectSeq(sleepRecords, InWeek)

RECURSIVE SumHoursSlept(_)
SumHoursSlept(records) ==
    IF records = <<>> THEN 0
    ELSE Head(records).hoursSlept + SumHoursSlept(Tail(records))

AvgHoursThisWeek(weekRecords) ==
    IF Len(weekRecords) > 0
    THEN MathRound(SumHoursSlept(weekRecords), Len(weekRecords))
    ELSE 0

\* Math.max() and Math.min() of no arguments: below and above every number
\* of hours.
NegInfinity == -1000000
PosInfinity == 1000000

RECURSIVE MathMax(_)
MathMax(xs) ==
    IF xs = <<>> THEN NegInfinity ELSE Max(Head(xs), MathMax(Tail(xs)))

RECURSIVE MathMin(_)
MathMin(xs) ==
    IF xs = <<>> THEN PosInfinity
    ELSE LET rest == MathMin(Tail(xs))
         IN  IF Head(xs) <= rest THEN Head(xs) ELSE rest

LongestSleepUnguarded(allHours) == MathMax(allHours)

LongestSleep(allHours) == IF Len(allHours) > 0 THEN MathMax(allHours) ELSE 0

ShortestSleep(allHours) == IF Len(allHours) > 0 THEN MathMin(allHours) ELSE 0

\* The strings avgBedtime can be.
AvgBedtime(sleepRecords) ==
    IF Len(sleepRecords) > 0
    THEN averageTimeStr([i \in 1..Len(sleepRecords) |-> sleepRecords[i].bedtime])
    ELSE {<<"0", "0", ":", "0", "0">>}

\* The strings avgWakeTime can be.
AvgWakeTime(sleepRecords) ==
    IF Len(sleepRecords) > 0
    THEN averageTimeStr([i \in 1..Len(sleepRecords) |-> sleepRecords[i].wakeTime])
    ELSE {<<"0", "0", ":", "0", "0">>}

\* The stats memo.  `today` is the calendar date and `now` the instant of
\* new Date(); avgBedtime and avgWakeTime are the values the two averages
\* came to.
SleepStats(sleepRecords, caffeineEntries, recommendedHours, today, now, avgBedtime, avgWakeTime) ==
    LET weekRecords == WeekRecords(sleepRecords, NewDate(today))
        debtResult == calculateSleepDebt(sleepRecords, recommendedHours, today)
        allHours == [i \in 1..Len(sleepRecords) |-> sleepRecords[i].hoursSlept]
    IN  [totalRecords |-> Len(sleepRecords),
         avgHoursThisWeek |-> AvgHoursThisWeek(weekRecords),
         totalDebtHours |-> debtResult.totalDebt,
         longestSleep |-> LongestSleep(allHours),
         shortestSleep |-> ShortestSleep(allHours),
         avgBedtime |-> avgBedtime,
         avgWakeTime |-> avgWakeTime,
         currentCaffeineMg |-> calculateCaffeineLevel(caffeineEntries, now)]

(***************************************************************************)
(* The operations of useSleepState.  The state of the hook is the record   *)
(* [sleepRecords, caffeineEntries, recommendedHours]; nanoid() is the      *)
(* counter of ids handed out so far, each id new.                          *)
(***************************************************************************)

DEFAULT_RECOMMENDED_HOURS == 800

NewSleepRecordFullDay(record, id) ==
    [id |-> id, date |-> record.date, bedtime |-> record.bedtime,
     wakeTime |-> record.wakeTime, hoursSlept |-> 2400]

\* { ...record, id: nanoid(), hoursSlept }
NewSleepRecord(record, id) ==
    [id |-> id, date |-> record.date, bedtime |-> record.bedtime,
     wakeTime |-> record.wakeTime,
     hoursSlept |-> calculateHoursSlept(record.bedtime, record.wakeTime)]

\* { ...entry, id: nanoid(), timestamp: Date.now() }
NewCaffeineEntry(entry, id, now) ==
    [id |-> id, timestamp |-> now, amountMg |-> entry.amountMg]

RemoveUpToId(list, id) ==
    LET Keep(x) == x.id > id
    IN  SelectSeq(list, Keep)

\* prev.filter((x) => x.id !== id)
RemoveById(list, id) ==
    LET Keep(x) == x.id # id
    IN  SelectSeq(list, Keep)

ClampRecommendedAbove(hours) == IF 2400 < hours THEN 2400 ELSE hours

\* Math.max(1, Math.min(24, hours)), in hundredths of an hour.
ClampRecommended(hours) == Max(100, IF 2400 < hours THEN 2400 ELSE hours)

(***************************************************************************)
(* The caffeine chart of CaffeineTracker: one bar per displayed point,     *)
(* labelled with the point's hour.                                         *)
(***************************************************************************)

\* timeline.slice(0, 12)
ChartBars(timeline) ==
    SubSeq(timeline, 1, IF Len(timeline) < 12 THEN Len(timeline) ELSE 12)

(***************************************************************************)
(* Inputs: clock times and minute deltas                                   *)
(***************************************************************************)

\* The HH:mm string of hour h and minute m, written digit by digit.
ClockStr(h, m) ==
    <<DigitChars[(h \div 10) + 1], DigitChars[(h % 10) + 1], ":",
      DigitChars[(m \div 10) + 1], DigitChars[(m % 10) + 1]>>

ClockTimes == {ClockStr(h, m) : h \in 0..23, m \in 0..59}

\* Whole days that a delta may span in either direction.
MaxWraps == 2

\* Offsets within a day, among them the cycle spans 105 and 555.
DeltaOffsets == {0, 1, 15, 59, 105, 555, 1439}

Deltas == {w * 1440 + r : w \in (-MaxWraps)..MaxWraps, r \in DeltaOffsets}

(***************************************************************************)
(* Specification of the add/subtract utilities: the inputs are drawn in    *)
(* Init, the actions apply the functions.                                  *)
(***************************************************************************)

NoEnv == [today |-> 0, tzOffset |-> 0]

InitTime ==
    /\ args \in [timeStr : ClockTimes, minutes : Deltas]
    /\ env = NoEnv
    /\ fn = "none"
    /\ ret = NoValue

CallAddMinutes ==
    /\ fn = "none"
    /\ fn' = "addMinutesToTime"
    /\ ret' = addMinutesToTime(args.timeStr, args.minutes)
    /\ UNCHANGED <<args, env>>

CallSubtractMinutes ==
    /\ fn = "none"
    /\ fn' = "subtractMinutesFromTime"
    /\ ret' = subtractMinutesFromTime(args.timeStr, args.minutes)
    /\ UNCHANGED <<args, env>>

\* The result of a subtraction is fed back to the addition, same minutes.
CallAddAfterSubtract ==
    /\ fn = "subtractMinutesFromTime"
    /\ fn' = "subtractThenAdd"
    /\ ret' = addMinutesToTime(ret, args.minutes)
    /\ UNCHANGED <<args, env>>

\* The result of an addition is fed back to the subtraction, same minutes.
CallSubtractAfterAdd ==
    /\ fn = "addMinutesToTime"
    /\ fn' = "addThenSubtract"
    /\ ret' = subtractMinutesFromTime(ret, args.minutes)
    /\ UNCHANGED <<args, env>>

NextTime ==
    \/ CallAddMinutes
    \/ CallSubtractMinutes
    \/ CallAddAfterSubtract
    \/ CallSubtractAfterAdd

SpecTime == InitTime /\ [][NextTime]_vars

(***************************************************************************)
(* Specification of calculateHoursSlept: every wake time against the       *)
(* bedtimes on the quarter hours.                                          *)
(***************************************************************************)

QuarterTimes == {ClockStr(h, m) : h \in 0..23, m \in {0, 15, 30, 45}}

InitHours ==
    /\ args \in [bedtime : QuarterTimes, wakeTime : ClockTimes]
    /\ env = NoEnv
    /\ fn = "none"
    /\ ret = NoValue

CallHoursSlept ==
    /\ fn = "none"
    /\ fn' = "calculateHoursSlept"
    /\ ret' = calculateHoursSlept(args.bedtime, args.wakeTime)
    /\ UNCHANGED <<args, env>>

NextHours == CallHoursSlept

SpecHours == InitHours /\ [][NextHours]_vars

(***************************************************************************)
(* Specification of calculateOptimalTimes: every target time, both modes.  *)
(***************************************************************************)

InitCycle ==
    /\ args \in [targetTime : ClockTimes, mode : {"bedtime", "wakeup"}]
    /\ env = NoEnv
    /\ fn = "none"
    /\ ret = NoValue

CallOptimalTimes ==
    /\ fn = "none"
    /\ fn' = "calculateOptimalTimes"
    /\ ret' = calculateOptimalTimes(args.targetTime, args.mode)
    /\ UNCHANGED <<args, env>>

NextCycle == CallOptimalTimes

SpecCycle == InitCycle /\ [][NextCycle]_vars

(***************************************************************************)
(* Specifications of the caffeine functions: entry lists in any order.     *)
(***************************************************************************)

MaxEntries == 2

\* Entry timestamps range over 0..MaxTimestamp ticks.
MaxTimestamp == 5

\* Query instants range over 0..MaxAt ticks (two half-lives are 40 ticks).
MaxAt == 45

Amounts == {30, 95, 100}

RECURSIVE SeqsUpTo(_, _)
SeqsUpTo(S, n) ==
    IF n = 0 THEN {<<>>}
    ELSE LET shorter == SeqsUpTo(S, n - 1)
         IN  shorter \cup {Append(q, x) : q \in {p \in shorter : Len(p) = n - 1}, x \in S}

EntryValues == [timestamp : 0..MaxTimestamp, amountMg : Amounts]

\* Amounts no quick-add item and no accepted custom input has: the entry
\* list is read back from storage as it is found there.
OutOfRangeAmounts == {-50, 0}

OutOfRangeEntryValues == [timestamp : {0, MaxTimestamp}, amountMg : OutOfRangeAmounts]

InitCaffeine ==
    /\ args \in [entries : SeqsUpTo(EntryValues \cup OutOfRangeEntryValues, MaxEntries),
                 atTime : 0..MaxAt]
    /\ env = NoEnv
    /\ fn = "none"
    /\ ret = NoValue

CallCaffeineLevel ==
    /\ fn = "none"
    /\ fn' = "calculateCaffeineLevel"
    /\ ret' = calculateCaffeineLevel(args.entries, args.atTime)
    /\ UNCHANGED <<args, env>>

NextCaffeine == CallCaffeineLevel

SpecCaffeine == InitCaffeine /\ [][NextCaffeine]_vars

\* Minutes past the hour of the local clock at instant 0, in ticks: 0, and
\* the half-hour and three-quarter-hour zones.
TzOffsets == {0, 2, 3}

InitTimeline ==
    /\ args \in [entries : SeqsUpTo(EntryValues, MaxEntries)]
    /\ env \in [today : {0}, tzOffset : TzOffsets]
    /\ fn = "none"
    /\ ret = NoValue

CallCaffeineTimeline ==
    /\ fn = "none"
    /\ fn' = "calculateCaffeineTimeline"
    /\ ret' = calculateCaffeineTimeline(args.entries, env.tzOffset)
    /\ UNCHANGED <<args, env>>

\* CaffeineTracker draws the chart of the timeline App passes to it; without
\* a timeline the chart section is not drawn.
RenderChart ==
    /\ fn = "calculateCaffeineTimeline"
    /\ fn' = "CaffeineTracker"
    /\ ret' = IF Len(ret) > 0 THEN ChartBars(ret) ELSE <<>>
    /\ UNCHANGED <<args, env>>

NextTimeline == CallCaffeineTimeline \/ RenderChart

SpecTimeline == InitTimeline /\ [][NextTimeline]_vars

(***************************************************************************)
(* Specification of calculateSleepDebt: the clock shows a date around a    *)
(* month end, a year end or the end of February; the records are dated     *)
(* inside and just outside the 7-day window, in any order.                 *)
(***************************************************************************)

MaxRecords == 2

\* Days of a month counted from its first and from its last day.
MonthEdge == 3

\* The months the clock is set in: around the end of a common and of a leap
\* February and around a year end.
TodayMonths == {<<2023, 3>>, <<2023, 12>>, <<2024, 1>>, <<2024, 2>>, <<2024, 3>>}

LeapYear(y) == (y % 4 = 0 /\ y % 100 # 0) \/ y % 400 = 0

DaysInMonth(y, m) ==
    IF m = 2 THEN (IF LeapYear(y) THEN 29 ELSE 28)
    ELSE IF m \in {4, 6, 9, 11} THEN 30
    ELSE 31

TodayDates ==
    {c \in [year : {2023, 2024}, month : {1, 2, 3, 12}, date : 1..31] :
        /\ <<c.year, c.month>> \in TodayMonths
        /\ c.date <= DaysInMonth(c.year, c.month)
        /\ (c.date <= MonthEdge \/ c.date > DaysInMonth(c.year, c.month) - MonthEdge)}

\* The calendar date before c.
PrevDate(c) ==
    IF c.date > 1 THEN [c EXCEPT !.date = c.date - 1]
    ELSE IF c.month > 1
         THEN [c EXCEPT !.month = c.month - 1, !.date = DaysInMonth(c.year, c.month - 1)]
         ELSE [year |-> c.year - 1, month |-> 12, date |-> 31]

\* The calendar date after c.
NextDate(c) ==
    IF c.date < DaysInMonth(c.year, c.month) THEN [c EXCEPT !.date = c.date + 1]
    ELSE IF c.month < 12
         THEN [c EXCEPT !.month = c.month + 1, !.date = 1]
         ELSE [year |-> c.year + 1, month |-> 1, date |-> 1]

RECURSIVE DateBefore(_, _)
DateBefore(c, k) == IF k = 0 THEN c ELSE DateBefore(PrevDate(c), k - 1)

\* The YYYY-MM-DD string of a calendar date, written digit by digit.
DateStr(c) ==
    <<DigitChars[(c.year \div 1000) + 1], DigitChars[((c.year \div 100) % 10) + 1],
      DigitChars[((c.year \div 10) % 10) + 1], DigitChars[(c.year % 10) + 1], "-",
      DigitChars[(c.month \div 10) + 1], DigitChars[(c.month % 10) + 1], "-",
      DigitChars[(c.date \div 10) + 1], DigitChars[(c.date % 10) + 1]>>

\* Record dates: today and 6 days before (the ends of the window) and 7 days
\* before (outside it).
RecordDates(today) == {DateStr(DateBefore(today, k)) : k \in {0, 6, 7}}

\* 5 hours (short of either recommendation), 9 hours (over both) and 0.
HoursChoices == {0, 500, 900}

RecommendedChoices == {650, 800}

InitDebt ==
    /\ env \in [today : TodayDates, tzOffset : {0}]
    /\ args \in [records : SeqsUpTo([date : RecordDates(env.today),
                                     hoursSlept : HoursChoices], MaxRecords),
                 recommendedHours : RecommendedChoices]
    /\ fn = "none"
    /\ ret = NoValue

CallSleepDebt ==
    /\ fn = "none"
    /\ fn' = "calculateSleepDebt"
    /\ ret' = calculateSleepDebt(args.records, args.recommendedHours, env.today)
    /\ UNCHANGED <<args, env>>

NextDebt == CallSleepDebt

SpecDebt == InitDebt /\ [][NextDebt]_vars

(***************************************************************************)
(* Specification of generateSleepTips: stats values on and next to every   *)
(* threshold, entries before and after 4 PM of today and of yesterday.     *)
(***************************************************************************)

\* longestSleep and shortestSleep together.
SleepExtremes == {<<0, 0>>, <<900, 600>>, <<901, 600>>, <<400, 0>>}

StatsValues ==
    {[totalRecords |-> n, avgHoursThisWeek |-> a, totalDebtHours |-> d,
      longestSleep |-> x[1], shortestSleep |-> x[2],
      avgBedtime |-> ClockStr(0, 0), avgWakeTime |-> ClockStr(0, 0),
      currentCaffeineMg |-> c] :
        n \in {0, 3}, a \in {0, 450, 600}, d \in {500, 501, 1000, 1001},
        x \in SleepExtremes, c \in {1000, 1001, 2000, 2001}}

\* Local times of the clock, in ticks of the day: 00:00 and 17:00.
ClockTicks == {0, 68}

TipsToday == [year |-> 2024, month |-> 3, date |-> 1]

\* Entries logged at 15:45 and 16:00 of today and at 23:45 of yesterday.
TipEntryValues(tzOffset) ==
    {[timestamp |-> InstantOf(TipsToday, k, tzOffset), amountMg |-> 95] :
        k \in {63, 64, -1}}

InitTips ==
    /\ env \in [today : {TipsToday}, tzOffset : TzOffsets, time : ClockTicks]
    /\ args \in [stats : StatsValues,
                 caffeineEntries : SeqsUpTo(TipEntryValues(env.tzOffset), MaxEntries)]
    /\ fn = "none"
    /\ ret = NoValue

CallSleepTips ==
    /\ fn = "none"
    /\ fn' = "generateSleepTips"
    /\ ret' = generateSleepTips(args.stats, args.caffeineEntries,
                                InstantOf(env.today, env.time, env.tzOffset),
                                env.tzOffset)
    /\ UNCHANGED <<args, env>>

NextTips == CallSleepTips

SpecTips == InitTips /\ [][NextTips]_vars

(***************************************************************************)
(* Specification of the derived values of one render of App: the stats of  *)
(* useSleepState and the four memos of App, all over the same state and    *)
(* the same reading of the clock.                                          *)
(***************************************************************************)

\* 2024-03-05 has its window start in February of a leap year, 2024-01-03 in
\* the year before.
StatsTodays ==
    {[year |-> 2024, month |-> 3, date |-> 5], [year |-> 2024, month |-> 1, date |-> 3]}

\* Record dates: tomorrow, today, and 6, 7 and 8 days before today.
StatsRecordDates(today) ==
    {DateStr(NextDate(today))} \cup {DateStr(DateBefore(today, k)) : k \in {0, 6, 7, 8}}

\* Nights of 8, 5 and 0 hours.
Nights ==
    {[bedtime |-> ClockStr(23, 0), wakeTime |-> ClockStr(7, 0), hoursSlept |-> 800],
     [bedtime |-> ClockStr(1, 0), wakeTime |-> ClockStr(6, 0), hoursSlept |-> 500],
     [bedtime |-> ClockStr(0, 0), wakeTime |-> ClockStr(0, 0), hoursSlept |-> 0]}

SleepRecordValues(today) ==
    {[date |-> d, bedtime |-> n.bedtime, wakeTime |-> n.wakeTime,
      hoursSlept |-> n.hoursSlept] : d \in StatsRecordDates(today), n \in Nights}

\* One coffee, two hours before now.
StatsEntryValues(now) == {[timestamp |-> now - 8, amountMg |-> 95]}

InitStats ==
    /\ env \in [today : StatsTodays, tzOffset : {3}, time : {68}]
    /\ args \in [sleepRecords : SeqsUpTo(SleepRecordValues(env.today), MaxRecords),
                 caffeineEntries :
                     SeqsUpTo(StatsEntryValues(InstantOf(env.today, env.time, env.tzOffset)),
                              MaxEntries),
                 recommendedHours : {800}]
    /\ fn = "none"
    /\ ret = NoValue

RenderApp ==
    /\ fn = "none"
    /\ fn' = "App"
    /\ LET now == InstantOf(env.today, env.time, env.tzOffset)
       IN  \E avgBedtime \in AvgBedtime(args.sleepRecords),
              avgWakeTime \in AvgWakeTime(args.sleepRecords) :
             LET st == SleepStats(args.sleepRecords, args.caffeineEntries,
                                  args.recommendedHours, env.today, now,
                                  avgBedtime, avgWakeTime)
             IN  ret' = [stats |-> st,
                         currentCaffeineLevel |->
                             calculateCaffeineLevel(args.caffeineEntries, now),
                         caffeineTimeline |->
                             calculateCaffeineTimeline(args.caffeineEntries, env.tzOffset),
                         debtResult |->
                             calculateSleepDebt(args.sleepRecords, args.recommendedHours,
                                                env.today),
                         sleepTips |->
                             generateSleepTips(st, args.caffeineEntries, now, env.tzOffset)]
    /\ UNCHANGED <<args, env>>

NextStats == RenderApp

SpecStats == InitStats /\ [][NextStats]_vars

(***************************************************************************)
(* Specification of repeated calls: every engine function is called with   *)
(* the same explicit arguments once, and once more after the clock may     *)
(* have moved on.  calculateCaffeineLevel is called as App calls it, with  *)
(* atTime left to its default new Date().                                  *)
(***************************************************************************)

\* What the five engine functions return for the explicit arguments in args
\* when the clock reads env.
EngineResults ==
    LET now == InstantOf(env.today, env.time, env.tzOffset)
    IN  [calculateOptimalTimes |-> calculateOptimalTimes(args.targetTime, args.mode),
         calculateCaffeineLevel |-> calculateCaffeineLevel(args.caffeineEntries, now),
         calculateCaffeineTimeline |->
             calculateCaffeineTimeline(args.caffeineEntries, env.tzOffset),
         calculateSleepDebt |->
             calculateSleepDebt(args.sleepRecords, args.recommendedHours, env.today),
         generateSleepTips |->
             generateSleepTips(args.stats, args.caffeineEntries, now, env.tzOffset)]

\* Local times of the first call, in ticks of the day: 15:00 and 23:00.
FirstCallTicks == {60, 92}

\* How far the clock moves between the calls: an hour or a day.
ClockSteps == {4, 96}

InitRepeat ==
    /\ env \in [today : StatsTodays, tzOffset : {0}, time : FirstCallTicks]
    /\ args \in [targetTime : {ClockStr(7, 0)}, mode : {"bedtime"},
                 sleepRecords :
                     SeqsUpTo({[date |-> DateStr(env.today), bedtime |-> n.bedtime,
                                wakeTime |-> n.wakeTime, hoursSlept |-> n.hoursSlept] :
                                  n \in Nights}, MaxRecords),
                 recommendedHours : {800},
                 caffeineEntries :
                     SeqsUpTo({[timestamp |-> InstantOf(env.today, 64, env.tzOffset),
                                amountMg |-> 95]}, MaxEntries),
                 stats : {st \in StatsValues :
                            /\ st.totalRecords = 0
                            /\ st.avgHoursThisWeek = 0
                            /\ st.totalDebtHours = 500
                            /\ st.longestSleep = 0
                            /\ st.currentCaffeineMg = 1000}]
    /\ fn = "none"
    /\ ret = <<>>

CallEngine ==
    /\ fn = "none"
    /\ fn' = "once"
    /\ ret' = <<EngineResults>>
    /\ UNCHANGED <<args, env>>

\* Time passes between the two calls.
AdvanceClock ==
    /\ fn = "once"
    /\ fn' = "later"
    /\ \E step \in ClockSteps :
          env' = [env EXCEPT !.time = (env.time + step) % 96,
                             !.today = IF env.time + step >= 96
                                       THEN NextDate(env.today) ELSE env.today]
    /\ UNCHANGED <<args, ret>>

CallEngineAgain ==
    /\ fn \in {"once", "later"}
    /\ fn' = "twice"
    /\ ret' = Append(ret, EngineResults)
    /\ UNCHANGED <<args, env>>

NextRepeat == CallEngine \/ AdvanceClock \/ CallEngineAgain

SpecRepeat == InitRepeat /\ [][NextRepeat]_vars

(***************************************************************************)
(* Specification of parseTime: every string of up to MaxTimeLen characters *)
(* over digits, the colon and a letter.                                    *)
(***************************************************************************)

MaxTimeLen == 5

TimeChars == {"0", "7", ":", "a"}

InitParse ==
    /\ args \in [timeStr : SeqsUpTo(TimeChars, MaxTimeLen)]
    /\ env = NoEnv
    /\ fn = "none"
    /\ ret = NoValue

\* parseTime has no throw statement and calls nothing that throws on a
\* string: every call returns a value.
CallParseTime ==
    /\ fn = "none"
    /\ fn' = "parseTime"
    /\ ret' = [value |-> parseTime(args.timeStr)]
    /\ UNCHANGED <<args, env>>

NextParse == CallParseTime

SpecParse == InitParse /\ [][NextParse]_vars

(***************************************************************************)
(* Specification of useSleepState: from the empty state with the default   *)
(* recommendation, any sequence of the six operations.  env holds the      *)
(* clock, the ids nanoid() has handed out and what the effects saved to    *)
(* localStorage; ret is the state the hook returns.                        *)
(***************************************************************************)

\* nanoid() is called at most MaxIds times.
MaxIds == 2

\* Two nights logged for 2024-03-05 (23:00 to 07:00, and 00:00 to 00:00) and
\* one for 2024-03-04 (01:00 to 06:00).
SleepRecordInputs ==
    {[date |-> DateStr([year |-> 2024, month |-> 3, date |-> 5]),
      bedtime |-> ClockStr(23, 0), wakeTime |-> ClockStr(7, 0)],
     [date |-> DateStr([year |-> 2024, month |-> 3, date |-> 5]),
      bedtime |-> ClockStr(0, 0), wakeTime |-> ClockStr(0, 0)],
     [date |-> DateStr([year |-> 2024, month |-> 3, date |-> 4]),
      bedtime |-> ClockStr(1, 0), wakeTime |-> ClockStr(6, 0)]}

\* Hours asked of setRecommendedHours, in hundredths: below, on and above
\* both ends of [1, 24].
HourRequests == {-100, 99, 100, 650, 2400, 2401}

InitHook ==
    /\ args = <<>>
    /\ env = [now |-> 0, ids |-> 0,
              storage |-> [sleepRecords |-> <<>>, caffeineEntries |-> <<>>,
                           recommendedHours |-> DEFAULT_RECOMMENDED_HOURS]]
    /\ fn = "useSleepState"
    /\ ret = [sleepRecords |-> <<>>, caffeineEntries |-> <<>>,
              recommendedHours |-> DEFAULT_RECOMMENDED_HOURS]

\* The state update of an operation followed by the effects that persist it.
Commit(name, arguments, state, ids) ==
    /\ fn' = name
    /\ args' = arguments
    /\ ret' = state
    /\ env' = [env EXCEPT !.ids = ids, !.storage = state]

addSleepRecord ==
    /\ Len(ret.sleepRecords) < MaxRecords
    /\ env.ids < MaxIds
    /\ \E record \in SleepRecordInputs :
          Commit("addSleepRecord", <<record>>,
                 [ret EXCEPT !.sleepRecords =
                      Append(@, NewSleepRecord(record, env.ids + 1))],
                 env.ids + 1)

removeSleepRecord ==
    \E id \in 1..MaxIds :
        Commit("removeSleepRecord", <<id>>,
               [ret EXCEPT !.sleepRecords = RemoveById(@, id)], env.ids)

addCaffeineEntry ==
    /\ Len(ret.caffeineEntries) < MaxEntries
    /\ env.ids < MaxIds
    /\ \E amountMg \in Amounts :
          Commit("addCaffeineEntry", <<[amountMg |-> amountMg]>>,
                 [ret EXCEPT !.caffeineEntries =
                      Append(@, NewCaffeineEntry([amountMg |-> amountMg],
                                                 env.ids + 1, env.now))],
                 env.ids + 1)

removeCaffeineEntry ==
    \E id \in 1..MaxIds :
        Commit("removeCaffeineEntry", <<id>>,
               [ret EXCEPT !.caffeineEntries = RemoveById(@, id)], env.ids)

clearCaffeineEntries ==
    Commit("clearCaffeineEntries", <<>>, [ret EXCEPT !.caffeineEntries = <<>>], env.ids)

setRecommendedHours ==
    \E hours \in HourRequests :
        Commit("setRecommendedHours", <<hours>>,
               [ret EXCEPT !.recommendedHours = ClampRecommended(hours)], env.ids)

\* Time passes between two operations (MaxEntries times at most).
TickHook ==
    /\ env.now < MaxEntries
    /\ env' = [env EXCEPT !.now = @ + 1]
    /\ UNCHANGED <<args, fn, ret>>

NextHook ==
    \/ addSleepRecord
    \/ removeSleepRecord
    \/ addCaffeineEntry
    \/ removeCaffeineEntry
    \/ clearCaffeineEntries
    \/ setRecommendedHours
    \/ TickHook

SpecHook == InitHook /\ [][NextHook]_vars

(***************************************************************************)
(* Specification of averageTimeStr: lists of times on both sides of        *)
(* midnight, a minute from it, and half a day apart.                       *)
(***************************************************************************)

MaxTimes == 2

AverageTimes ==
    {ClockStr(23, 30), ClockStr(0, 30), ClockStr(0, 0), ClockStr(12, 0),
     ClockStr(6, 0), ClockStr(18, 0), ClockStr(23, 59), ClockStr(0, 1)}

InitAverage ==
    /\ args \in [times : SeqsUpTo(AverageTimes, MaxTimes)]
    /\ env = NoEnv
    /\ fn = "none"
    /\ ret = NoValue

CallAverageTimeStr ==
    /\ fn = "none"
    /\ fn' = "averageTimeStr"
    /\ ret' \in averageTimeStr(args.times)
    /\ UNCHANGED <<args, env>>

NextAverage == CallAverageTimeStr

SpecAverage == InitAverage /\ [][NextAverage]_vars

(***************************************************************************)
(* Specification of the analytics unlock: App with useInterstitialAd and   *)
(* the ad SDK.  Here                                                       *)
(*   args  lists the showInterstitialAd calls made so far, each with the   *)
(*         number of times its onDismiss and its onUnavailable have run;   *)
(*   env   is the world outside React: the calendar day, the unlock date   *)
(*         in localStorage (NoDate if none), what the SDK supports, the    *)
(*         loads it has not answered yet, for each call the number of      *)
(*         events the SDK has sent to it (NotShowing if the ad is not on   *)
(*         its way), and whether an ad was ever dismissed;                 *)
(*   ret   is the React state: analyticsUnlocked of App and loading,       *)
(*         adSupported and dismissCallbackRef (the call whose onDismiss it *)
(*         holds, NoCallback for undefined) of the hook;                   *)
(*   fn    is the handler that ran last.                                   *)
(* The SDK may send the events of a show in any order and number, up to    *)
(* MaxEvents for each call.                                                *)
(***************************************************************************)

MaxShows == 2
MaxEvents == 2
MaxDays == 1

NoDate == -1
NotShowing == -1
NoCallback == 0

\* The state of useInterstitialAd after its first render and effect.
MountedAd(loadSupported) ==
    [loading |-> loadSupported, adSupported |-> loadSupported,
     dismissCallbackRef |-> NoCallback]

\* useState(() => localStorage.getItem(ANALYTICS_UNLOCK_KEY) === getTodayISO())
InitialUnlocked(stored, today) == stored = today

\* App starts, or starts again after the page was closed: React state is
\* built anew, what the SDK still owed the old page is gone.
Mount(today, stored, loadSupported) ==
    /\ ret' = [analyticsUnlocked |-> InitialUnlocked(stored, today)]
                @@ MountedAd(loadSupported)
    /\ env' = [env EXCEPT !.loads = IF loadSupported THEN 1 ELSE 0,
                          !.shows = [i \in 1..Len(args) |-> NotShowing]]

InitAd ==
    /\ args = <<>>
    /\ fn = "App"
    /\ \E loadSupported, showSupported \in BOOLEAN :
          /\ env = [today |-> 0, stored |-> NoDate, loadSupported |-> loadSupported,
                    showSupported |-> showSupported,
                    loads |-> IF loadSupported THEN 1 ELSE 0,
                    shows |-> <<>>, dismissed |-> FALSE]
          /\ ret = [analyticsUnlocked |-> InitialUnlocked(NoDate, 0)]
                     @@ MountedAd(loadSupported)

Restart ==
    /\ fn' = "App"
    /\ Mount(env.today, env.stored, env.loadSupported)
    /\ UNCHANGED args

\* The calendar date changes while the app is open.
Midnight ==
    /\ env.today < MaxDays
    /\ fn' = "midnight"
    /\ env' = [env EXCEPT !.today = @ + 1]
    /\ UNCHANGED <<args, ret>>

\* The SDK answers a load with 'loaded' or with an error.
LoadAnswered ==
    /\ env.loads > 0
    /\ fn' \in {"loaded", "loadError"}
    /\ env' = [env EXCEPT !.loads = @ - 1]
    /\ ret' = [ret EXCEPT !.loading = FALSE]
    /\ UNCHANGED args

\* The unlock button (drawn while analytics is locked) calls
\* handleUnlockAnalytics, which calls showInterstitialAd.
showInterstitialAd ==
    /\ ~ret.analyticsUnlocked
    /\ Len(args) < MaxShows
    /\ fn' = "showInterstitialAd"
    /\ IF ~ret.adSupported \/ ~env.showSupported \/ ret.loading
       THEN /\ args' = Append(args, [onDismiss |-> 0, onUnavailable |-> 1])
            /\ env' = [env EXCEPT !.shows = Append(@, NotShowing)]
            /\ ret' = ret
       ELSE /\ args' = Append(args, [onDismiss |-> 0, onUnavailable |-> 0])
            /\ env' = [env EXCEPT !.shows = Append(@, 0)]
            /\ ret' = [ret EXCEPT !.dismissCallbackRef = Len(args) + 1]

\* dismissCallbackRef.current?.() with the onDismiss of App.
RunDismissCallback(calls, ref) ==
    IF ref = NoCallback THEN calls
    ELSE [calls EXCEPT ![ref].onDismiss = @ + 1]

RefKept(ref) == ref

\* dismissCallbackRef.current = undefined
RefCleared(ref) == NoCallback

\* The SDK sends the event `type` to the show of `call`.
ShowEvent(call, type) ==
    /\ env.shows[call] # NotShowing
    /\ env.shows[call] < MaxEvents
    /\ fn' = type
    /\ LET ref == ret.dismissCallbackRef
           ran == ref # NoCallback /\ type # "requested"
           sent == [env.shows EXCEPT ![call] = @ + 1]
           reload == type = "dismissed" /\ ret.adSupported
       IN  /\ args' = IF type = "requested" THEN args ELSE RunDismissCallback(args, ref)
           /\ ret' = [loading |-> IF type = "requested" \/ reload
                                  THEN TRUE ELSE ret.loading,
                      adSupported |-> ret.adSupported,
                      dismissCallbackRef |->
                          IF type = "requested" THEN ref ELSE RefCleared(ref),
                      analyticsUnlocked |-> ret.analyticsUnlocked \/ ran]
           /\ env' = [env EXCEPT !.shows = sent,
                                 !.stored = IF ran THEN env.today ELSE @,
                                 !.loads = IF reload THEN @ + 1 ELSE @,
                                 !.dismissed = @ \/ type = "dismissed"]

SdkEvent ==
    \E call \in 1..Len(args), type \in {"requested", "dismissed", "failedToShow", "onError"} :
        ShowEvent(call, type)

NextAd == Restart \/ Midnight \/ LoadAnswered \/ showInterstitialAd \/ SdkEvent

SpecAd == InitAd /\ [][NextAd]_vars

\* The SDK answers every load in the end.
SpecAdFair == SpecAd /\ WF_vars(LoadAnswered)

(***************************************************************************)
(* Reading a clock string back, digit by digit                             *)
(***************************************************************************)

WellFormedClock(s) ==
    /\ Len(s) = 5
    /\ s[3] = ":"
    /\ \A i \in {1, 2, 4, 5} : IsDigit(s[i])
    /\ DigitVal(s[1]) * 10 + DigitVal(s[2]) \in 0..23
    /\ DigitVal(s[4]) * 10 + DigitVal(s[5]) \in 0..59

MinuteOfDay(s) ==
    (DigitVal(s[1]) * 10 + DigitVal(s[2])) * 60 + DigitVal(s[4]) * 10 + DigitVal(s[5])

\* C1: addMinutesToTime(t, d) and subtractMinutesFromTime(t, d) return a
\* well-formed HH:mm string whose minute of day is (minutes(t) + d) mod 1440,
\* respectively (minutes(t) - d) mod 1440, for every delta of either sign and
\* also beyond a whole day.
C1_AddSubtractWrap ==
    /\ fn = "addMinutesToTime" =>
        /\ WellFormedClock(ret)
        /\ MinuteOfDay(ret) = (MinuteOfDay(args.timeStr) + args.minutes) % 1440
    /\ fn = "subtractMinutesFromTime" =>
        /\ WellFormedClock(ret)
        /\ MinuteOfDay(ret) = (MinuteOfDay(args.timeStr) - args.minutes) % 1440

C1_Witness ==
    /\ fn = "addMinutesToTime"
    /\ args.timeStr = ClockStr(0, 10)
    /\ args.minutes = -1441
    /\ ret = ClockStr(0, 9)

\* C2: adding m minutes to the result of subtracting m minutes gives back
\* the clock time started from, and so does subtracting after adding, for
\* every m >= 0.
C2_RoundTrip ==
    (fn \in {"subtractThenAdd", "addThenSubtract"} /\ args.minutes >= 0)
        => ret = args.timeStr

C2_Witness ==
    /\ fn = "subtractThenAdd"
    /\ args.timeStr = ClockStr(0, 30)
    /\ args.minutes = 1545
    /\ ret = ClockStr(0, 30)

\* C3: calculateHoursSlept is the wake time minus the bedtime in minutes,
\* plus 1440 when that is <= 0, in hours rounded to two decimals; it lies in
\* (0, 24], is 24 for equal times, 8 for 23:00 -> 07:00 and 16 for
\* 07:00 -> 23:00.
C3_HoursSlept ==
    fn = "calculateHoursSlept" =>
        LET d == MinuteOfDay(args.wakeTime) - MinuteOfDay(args.bedtime)
            diff == IF d <= 0 THEN d + 1440 ELSE d
        IN  /\ 2 * Abs(60 * ret - 100 * diff) <= 60
            /\ ret > 0
            /\ ret <= 2400
            /\ args.bedtime = args.wakeTime => ret = 2400
            /\ (args.bedtime = ClockStr(23, 0) /\ args.wakeTime = ClockStr(7, 0))
                    => ret = 800
            /\ (args.bedtime = ClockStr(7, 0) /\ args.wakeTime = ClockStr(23, 0))
                    => ret = 1600

C3_Witness ==
    /\ fn = "calculateHoursSlept"
    /\ args.bedtime = ClockStr(23, 0)
    /\ args.wakeTime = ClockStr(23, 0)
    /\ ret = 2400

CyclesInOrder(mode) ==
    IF mode = "bedtime" THEN <<6, 5, 4, 3, 2, 1>> ELSE <<1, 2, 3, 4, 5, 6>>

\* C4: calculateOptimalTimes returns exactly 6 candidates, one per cycle
\* count 1..6, ordered 6..1 in 'bedtime' mode and 1..6 in 'wakeup' mode, each
\* candidate's time 90 minutes (mod 1440) after the one before it.
C4_SixCandidates ==
    fn = "calculateOptimalTimes" =>
        /\ Len(ret) = 6
        /\ \A i \in 1..Len(ret) : ret[i].cycles = CyclesInOrder(args.mode)[i]
        /\ \A c \in 1..6 : Cardinality({i \in 1..Len(ret) : ret[i].cycles = c}) = 1
        /\ \A i \in 1..(Len(ret) - 1) :
              /\ WellFormedClock(ret[i].time)
              /\ WellFormedClock(ret[i + 1].time)
              /\ MinuteOfDay(ret[i + 1].time) = (MinuteOfDay(ret[i].time) + 90) % 1440

C4_Witness ==
    /\ fn = "calculateOptimalTimes"
    /\ args.mode = "bedtime"
    /\ args.targetTime = ClockStr(1, 0)
    /\ Len(ret) = 6
    /\ ret[1].time = ClockStr(15, 45)
    /\ ret[6].time = ClockStr(23, 15)

\* C5: the candidate of c cycles is at target - (90c + 15) minutes in
\* 'bedtime' mode and at target + (90c + 15) minutes in 'wakeup' mode
\* (mod 1440), and its hours are 1.5c; 07:00 in 'bedtime' mode gives 21:45
\* for 6 cycles and 05:15 for 1 cycle.
C5_CandidateTimes ==
    fn = "calculateOptimalTimes" =>
        /\ \A i \in 1..Len(ret) :
              LET c == ret[i].cycles
                  span == c * 90 + 15
                  target == MinuteOfDay(args.targetTime)
              IN  /\ WellFormedClock(ret[i].time)
                  /\ MinuteOfDay(ret[i].time) =
                        IF args.mode = "bedtime" THEN (target - span) % 1440
                        ELSE (target + span) % 1440
                  /\ ret[i].hours = c * 150
        /\ (args.mode = "bedtime" /\ args.targetTime = ClockStr(7, 0)) =>
              /\ \E i \in 1..Len(ret) : ret[i].cycles = 6 /\ ret[i].time = ClockStr(21, 45)
              /\ \E i \in 1..Len(ret) : ret[i].cycles = 1 /\ ret[i].time = ClockStr(5, 15)

C5_Witness ==
    /\ fn = "calculateOptimalTimes"
    /\ args.mode = "wakeup"
    /\ args.targetTime = ClockStr(23, 30)
    /\ \E i \in 1..Len(ret) : ret[i].cycles = 1 /\ ret[i].time = ClockStr(1, 15)

GradeOfCycles(c) ==
    CASE c \in {1, 2} -> "poor"
      [] c = 3 -> "fair"
      [] c = 4 -> "good"
      [] c \in {5, 6} -> "great"

\* C6: every candidate carries the grade of its cycle count: 1 or 2 poor,
\* 3 fair, 4 good, 5 or 6 great, whatever the mode and the target time.
C6_QualityByCycles ==
    fn = "calculateOptimalTimes" =>
        \A i \in 1..Len(ret) :
            /\ ret[i].cycles \in 1..6
            /\ ret[i].quality = GradeOfCycles(ret[i].cycles)

C6_Witness ==
    /\ fn = "calculateOptimalTimes"
    /\ args.mode = "wakeup"
    /\ \E i \in 1..Len(ret) : ret[i].cycles = 5 /\ ret[i].quality = "great"
    /\ \E i \in 1..Len(ret) : ret[i].cycles = 2 /\ ret[i].quality = "poor"

RECURSIVE SumRemaining(_, _)
SumRemaining(entries, at) ==
    IF entries = <<>> THEN 0
    ELSE Head(entries).amountMg * Pow05(at - Head(entries).timestamp)
            + SumRemaining(Tail(entries), at)

\* C7: calculateCaffeineLevel(entries, at) is the sum over the entries not
\* after `at` of amountMg * 0.5^(elapsedHours / 5), rounded to one decimal;
\* a later entry adds nothing, an entry exactly at `at` counts in full, and
\* one entry of 100 mg gives 50.0 after 5 hours (amount / 2^k after k
\* half-lives).
C7_CaffeineLevel ==
    fn = "calculateCaffeineLevel" =>
        LET entries == args.entries
            at == args.atTime
            NotAfter(e) == e.timestamp <= at
            sum == SumRemaining(SelectSeq(entries, NotAfter), at)
        IN  /\ 2 * Abs(ret * 10000 - sum) <= 10000
            /\ (\A i \in 1..Len(entries) : entries[i].timestamp > at) => ret = 0
            /\ (Len(entries) = 1 /\ entries[1].timestamp = at)
                    => ret = entries[1].amountMg * 10
            /\ \A k \in 0..2 :
                 (Len(entries) = 1 /\ at - entries[1].timestamp = 20 * k)
                    => 2 * Abs(ret * TwoToThe(k) - entries[1].amountMg * 10)
                          <= TwoToThe(k)
            /\ (Len(entries) = 1 /\ entries[1].amountMg = 100
                    /\ at - entries[1].timestamp = 20) => ret = 500

C7_Witness ==
    /\ fn = "calculateCaffeineLevel"
    /\ args.atTime = 3
    /\ args.entries = <<[timestamp |-> 4, amountMg |-> 95],
                        [timestamp |-> 3, amountMg |-> 100]>>
    /\ ret = 1000

\* C8: calculateCaffeineTimeline is empty for no entries; otherwise it has
\* exactly 49 points, point i (0..48) with hour offset i * 0.5 and the level
\* calculateCaffeineLevel(entries, anchor + i * 30 minutes), the anchor being
\* the start of the clock hour of the smallest timestamp, whatever the order
\* of the entries.
C8_Timeline ==
    fn = "calculateCaffeineTimeline" =>
        IF args.entries = <<>> THEN ret = <<>>
        ELSE \E anchor \in (-4)..MaxTimestamp :
                /\ (anchor + env.tzOffset) % 4 = 0
                /\ \A i \in 1..Len(args.entries) : anchor <= args.entries[i].timestamp
                /\ \E i \in 1..Len(args.entries) : args.entries[i].timestamp < anchor + 4
                /\ Len(ret) = 49
                /\ \A i \in 0..48 :
                     /\ ret[i + 1].hour = i * 50
                     /\ ret[i + 1].level =
                            calculateCaffeineLevel(args.entries, anchor + 2 * i)

C8_Witness ==
    /\ fn = "calculateCaffeineTimeline"
    /\ env.tzOffset = 2
    /\ args.entries = <<[timestamp |-> 5, amountMg |-> 100],
                        [timestamp |-> 3, amountMg |-> 30]>>
    /\ Len(ret) = 49
    /\ ret[1].level = 0
    /\ ret[2].level > 0

\* The calendar date a YYYY-MM-DD string spells.
DateOfStr(s) ==
    [year |-> DigitVal(s[1]) * 1000 + DigitVal(s[2]) * 100 + DigitVal(s[3]) * 10
                + DigitVal(s[4]),
     month |-> DigitVal(s[6]) * 10 + DigitVal(s[7]),
     date |-> DigitVal(s[9]) * 10 + DigitVal(s[10])]

WellFormedDate(s) ==
    /\ Len(s) = 10
    /\ s[5] = "-"
    /\ s[8] = "-"
    /\ \A i \in {1, 2, 3, 4, 6, 7, 9, 10} : IsDigit(s[i])
    /\ DateOfStr(s).month \in 1..12
    /\ DateOfStr(s).date \in 1..DaysInMonth(DateOfStr(s).year, DateOfStr(s).month)

\* The weekday of a calendar date by Zeller's congruence, 0 = Sunday.
WeekdayOf(c) ==
    LET m == IF c.month <= 2 THEN c.month + 12 ELSE c.month
        y == IF c.month <= 2 THEN c.year - 1 ELSE c.year
        k == y % 100
        j == y \div 100
        h == (c.date + ((13 * (m + 1)) \div 5) + k + (k \div 4) + (j \div 4) + 5 * j) % 7
    IN  (h + 6) % 7

\* C9: the daily sequence of calculateSleepDebt has length exactly 7, holds
\* the consecutive calendar dates today-6 .. today, oldest first, also across
\* month and year ends, each with the weekday label of its own date.
C9_SevenDays ==
    fn = "calculateSleepDebt" =>
        /\ Len(ret.daily) = 7
        /\ \A i \in 1..Len(ret.daily) :
              /\ WellFormedDate(ret.daily[i].day)
              /\ ret.daily[i].dayLabel
                    = DAY_LABELS[WeekdayOf(DateOfStr(ret.daily[i].day)) + 1]
        /\ ret.daily[Len(ret.daily)].day = DateStr(env.today)
        /\ \A i \in 1..(Len(ret.daily) - 1) :
              DateOfStr(ret.daily[i + 1].day) = NextDate(DateOfStr(ret.daily[i].day))

C9_Witness ==
    /\ fn = "calculateSleepDebt"
    /\ env.today = [year |-> 2024, month |-> 1, date |-> 3]
    /\ Len(ret.daily) = 7
    /\ ret.daily[1].day = DateStr([year |-> 2023, month |-> 12, date |-> 28])
    /\ ret.daily[1].dayLabel = "mok"
    /\ ret.daily[7].dayLabel = "su"

\* The records without the one at position j.
WithoutRecord(records, j) ==
    SubSeq(records, 1, j - 1) \o SubSeq(records, j + 1, Len(records))

\* C10: each day uses at most one record: with several records of one date
\* the day's hours are those of the first in input order, and a later record
\* of that date changes neither the day's hours and debt nor totalDebt and
\* avgHours.
C10_FirstMatchWins ==
    fn = "calculateSleepDebt" =>
        /\ \A i \in 1..Len(ret.daily) :
              LET matches == {k \in 1..Len(args.records) :
                                args.records[k].date = ret.daily[i].day}
              IN  IF matches = {} THEN ret.daily[i].hours = 0
                  ELSE \E k \in matches :
                          /\ \A j \in matches : k <= j
                          /\ ret.daily[i].hours = args.records[k].hoursSlept
        /\ \A j \in 1..Len(args.records) :
              (\E k \in 1..(j - 1) : args.records[k].date = args.records[j].date)
                => calculateSleepDebt(WithoutRecord(args.records, j),
                                      args.recommendedHours, env.today) = ret

C10_Witness ==
    /\ fn = "calculateSleepDebt"
    /\ env.today = [year |-> 2024, month |-> 3, date |-> 1]
    /\ args.recommendedHours = 800
    /\ args.records = <<[date |-> DateStr(env.today), hoursSlept |-> 500],
                        [date |-> DateStr(env.today), hoursSlept |-> 900]>>
    /\ ret.daily[7].hours = 500
    /\ ret.daily[7].debt = 300
    /\ ret.avgHours = 500

RECURSIVE SumOver(_, _)
SumOver(f, S) ==
    IF S = {} THEN 0
    ELSE LET x == CHOOSE y \in S : TRUE
         IN  f[x] + SumOver(f, S \ {x})

\* C11: each day's debt is max(0, recommendedHours - hours), a day without a
\* record has hours 0 and debt recommendedHours, a surplus never lowers
\* another day's debt, and totalDebt is the sum of the 7 debts; one record of
\* 5 hours today with 8 recommended gives debt 3 today, 8 on the other six
\* days and totalDebt 51.
C11_DailyDebt ==
    fn = "calculateSleepDebt" =>
        LET days == 1..Len(ret.daily)
            rec == args.recommendedHours
            expected == [i \in days |->
                            IF ret.daily[i].hours >= rec THEN 0
                            ELSE rec - ret.daily[i].hours]
        IN  /\ \A i \in days :
                /\ ret.daily[i].debt = expected[i]
                /\ ret.daily[i].debt >= 0
                /\ (\A k \in 1..Len(args.records) :
                        args.records[k].date # ret.daily[i].day)
                     => (ret.daily[i].hours = 0 /\ ret.daily[i].debt = rec)
            /\ ret.totalDebt = SumOver(expected, days)
            /\ (rec = 800 /\ args.records
                              = <<[date |-> DateStr(env.today), hoursSlept |-> 500]>>)
                 => /\ ret.daily[7].debt = 300
                    /\ \A i \in 1..6 : ret.daily[i].debt = 800
                    /\ ret.totalDebt = 5100

C11_Witness ==
    /\ fn = "calculateSleepDebt"
    /\ args.recommendedHours = 800
    /\ args.records = <<[date |-> DateStr(env.today), hoursSlept |-> 900],
                        [date |-> DateStr(DateBefore(env.today, 6)), hoursSlept |-> 500]>>
    /\ ret.daily[7].debt = 0
    /\ ret.daily[1].debt = 300
    /\ ret.totalDebt = 4300

\* C12: avgHours is the mean of the per-day hours over the window days with
\* hours > 0 only, rounded to two decimals, and 0 when no day has hours > 0.
C12_AvgHours ==
    fn = "calculateSleepDebt" =>
        LET slept == {i \in 1..Len(ret.daily) : ret.daily[i].hours > 0}
            hours == [i \in 1..Len(ret.daily) |-> ret.daily[i].hours]
            n == Cardinality(slept)
        IN  IF slept = {} THEN ret.avgHours = 0
            ELSE 2 * Abs(ret.avgHours * n - SumOver(hours, slept)) <= n

C12_Witness ==
    /\ fn = "calculateSleepDebt"
    /\ args.records = <<[date |-> DateStr(env.today), hoursSlept |-> 0],
                        [date |-> DateStr(DateBefore(env.today, 6)), hoursSlept |-> 900]>>
    /\ ret.daily[7].hours = 0
    /\ ret.avgHours = 900

\* The local calendar date and hour of an instant, counted from the start of
\* TipsToday.
TicksSinceTipsToday(t) == (t + env.tzOffset) - InstantOf(TipsToday, 0, 0)

\* The cascade as a table: every tip in generation order with its condition.
Cascade(stats, entries) ==
    <<[tip |-> TipCaffeineHigh, on |-> stats.currentCaffeineMg > 2000],
      [tip |-> TipCaffeineModerate,
       on |-> stats.currentCaffeineMg > 1000 /\ ~(stats.currentCaffeineMg > 2000)],
      [tip |-> TipDebtSevere, on |-> stats.totalDebtHours > 1000],
      [tip |-> TipDebtModerate,
       on |-> stats.totalDebtHours > 500 /\ ~(stats.totalDebtHours > 1000)],
      [tip |-> TipShortSleep,
       on |-> 0 < stats.avgHoursThisWeek /\ stats.avgHoursThisWeek < 600],
      [tip |-> TipRegularBedtime, on |-> stats.totalRecords >= 3],
      [tip |-> TipLateCaffeine,
       on |-> \E i \in 1..Len(entries) :
                TicksSinceTipsToday(entries[i].timestamp) \in (16 * 4)..95],
      [tip |-> TipBlueLight, on |-> TRUE],
      [tip |-> TipRoomTemperature, on |-> TRUE],
      [tip |-> TipVariability,
       on |-> stats.longestSleep - stats.shortestSleep > 300 /\ stats.shortestSleep > 0],
      [tip |-> TipExercise, on |-> TRUE],
      [tip |-> TipMeal, on |-> TRUE]>>

IsOn(row) == row.on

\* C14: generateSleepTips returns the first 8 (all if fewer) of the tips whose
\* rule holds, in the fixed order of the cascade.
C14_TipCascade ==
    fn = "generateSleepTips" =>
        LET fired == SelectSeq(Cascade(args.stats, args.caffeineEntries), IsOn)
            n == IF Len(fired) < 8 THEN Len(fired) ELSE 8
        IN  /\ Len(ret) = n
            /\ \A i \in 1..n : ret[i] = fired[i].tip

C14_Witness ==
    /\ fn = "generateSleepTips"
    /\ env.time = 68
    /\ args.stats.currentCaffeineMg = 2001
    /\ args.stats.totalDebtHours = 501
    /\ args.stats.avgHoursThisWeek = 450
    /\ args.stats.totalRecords = 3
    /\ args.stats.longestSleep = 901
    /\ Len(args.caffeineEntries) = 1
    /\ getHours(args.caffeineEntries[1].timestamp, env.tzOffset) = 16
    /\ ret = <<TipCaffeineHigh, TipDebtModerate, TipShortSleep, TipRegularBedtime,
               TipLateCaffeine, TipBlueLight, TipRoomTemperature, TipVariability>>

Contains(tips, tip) == \E i \in 1..Len(tips) : tips[i] = tip

\* C15: no returned list holds both caffeine warnings or both debt tips; a
\* level of exactly 200 gives the moderate warning and exactly 100 none, a
\* debt of exactly 10 gives the moderate tip and exactly 5 none.
C15_ExclusivePairs ==
    fn = "generateSleepTips" =>
        /\ ~(Contains(ret, TipCaffeineHigh) /\ Contains(ret, TipCaffeineModerate))
        /\ ~(Contains(ret, TipDebtSevere) /\ Contains(ret, TipDebtModerate))
        /\ args.stats.currentCaffeineMg = 2000 =>
              (Contains(ret, TipCaffeineModerate) /\ ~Contains(ret, TipCaffeineHigh))
        /\ args.stats.currentCaffeineMg = 1000 =>
              (~Contains(ret, TipCaffeineModerate) /\ ~Contains(ret, TipCaffeineHigh))
        /\ args.stats.totalDebtHours = 1000 =>
              (Contains(ret, TipDebtModerate) /\ ~Contains(ret, TipDebtSevere))
        /\ args.stats.totalDebtHours = 500 =>
              (~Contains(ret, TipDebtModerate) /\ ~Contains(ret, TipDebtSevere))

C15_Witness ==
    /\ fn = "generateSleepTips"
    /\ args.stats.currentCaffeineMg = 2000
    /\ args.stats.totalDebtHours = 1000
    /\ Contains(ret, TipCaffeineModerate)
    /\ Contains(ret, TipDebtModerate)

PositionOf(tips, tip) == CHOOSE i \in 1..Len(tips) : tips[i] = tip

\* The number of tips the cascade generates before its row j.
RECURSIVE FiredBefore(_, _)
FiredBefore(rows, j) ==
    IF j <= 1 THEN 0
    ELSE FiredBefore(rows, j - 1) + (IF rows[j - 1].on THEN 1 ELSE 0)

\* C16: every returned list holds the blue-light tip and right after it the
\* room-temperature tip; the exercise tip and then the meal tip are generated
\* after them, and each is returned exactly when fewer than 8 tips were
\* generated before it, the exercise tip after the room-temperature tip and
\* the meal tip right after the exercise tip.
C16_FixedTipsTruncated ==
    fn = "generateSleepTips" =>
        LET rows == Cascade(args.stats, args.caffeineEntries)
        IN  /\ Contains(ret, TipBlueLight)
            /\ Contains(ret, TipRoomTemperature)
            /\ PositionOf(ret, TipRoomTemperature) = PositionOf(ret, TipBlueLight) + 1
            /\ Contains(ret, TipExercise) <=> FiredBefore(rows, 11) < 8
            /\ Contains(ret, TipMeal) <=> FiredBefore(rows, 12) < 8
            /\ Contains(ret, TipExercise) =>
                  PositionOf(ret, TipRoomTemperature) < PositionOf(ret, TipExercise)
            /\ Contains(ret, TipMeal) =>
                  PositionOf(ret, TipMeal) = PositionOf(ret, TipExercise) + 1

\* Both the exercise and the meal tip are cut off by the slice.
C16_Witness ==
    /\ fn = "generateSleepTips"
    /\ Len(ret) = 8
    /\ ret[6] = TipBlueLight
    /\ ret[7] = TipRoomTemperature
    /\ ret[8] = TipVariability
    /\ ~Contains(ret, TipExercise)
    /\ ~Contains(ret, TipMeal)

\* C16 as stated: the fixed tips are always part of the advice: every
\* returned list holds the blue-light and the room-temperature tip, and after
\* them the exercise and the meal tip.
C16_FixedTipsAlways ==
    fn = "generateSleepTips" =>
        /\ Contains(ret, TipBlueLight)
        /\ Contains(ret, TipRoomTemperature)
        /\ Contains(ret, TipExercise)
        /\ Contains(ret, TipMeal)
        /\ PositionOf(ret, TipRoomTemperature) < PositionOf(ret, TipExercise)
        /\ PositionOf(ret, TipExercise) < PositionOf(ret, TipMeal)

\* The records of the state dated on one of the 7 days today-6 .. today.
RecordsInWindow ==
    LET window == {DateStr(DateBefore(env.today, k)) : k \in 0..6}
        InWindow(r) == r.date \in window
    IN  SelectSeq(args.sleepRecords, InWindow)

\* C13: avgHoursThisWeek is the mean of hoursSlept, rounded to hundredths,
\* over exactly the records dated today-6 .. today, and 0 if there is none.
C13_WeekWindow ==
    fn = "App" =>
        LET week == RecordsInWindow
            hours == [i \in 1..Len(week) |-> week[i].hoursSlept]
        IN  IF Len(week) = 0 THEN ret.stats.avgHoursThisWeek = 0
            ELSE 2 * Abs(ret.stats.avgHoursThisWeek * Len(week)
                         - SumOver(hours, 1..Len(week))) <= Len(week)

\* C18: with no records and no entries every derived value is zeroed or
\* empty: caffeine level 0, empty timeline, 7 debt days of 0 hours owing the
\* recommended hours each with average 0, and stats of zeros with both
\* average times "00:00".
C18_EmptyState ==
    fn = "App" =>
        /\ args.caffeineEntries = <<>> =>
              /\ ret.currentCaffeineLevel = 0
              /\ ret.caffeineTimeline = <<>>
              /\ ret.stats.currentCaffeineMg = 0
        /\ args.sleepRecords = <<>> =>
              /\ Len(ret.debtResult.daily) = 7
              /\ \A i \in 1..7 :
                    /\ ret.debtResult.daily[i].hours = 0
                    /\ ret.debtResult.daily[i].debt = args.recommendedHours
              /\ ret.debtResult.totalDebt = 7 * args.recommendedHours
              /\ ret.debtResult.avgHours = 0
              /\ ret.stats.totalRecords = 0
              /\ ret.stats.avgHoursThisWeek = 0
              /\ ret.stats.totalDebtHours = 7 * args.recommendedHours
              /\ ret.stats.longestSleep = 0
              /\ ret.stats.shortestSleep = 0
              /\ ret.stats.avgBedtime = <<"0", "0", ":", "0", "0">>
              /\ ret.stats.avgWakeTime = <<"0", "0", ":", "0", "0">>

C18_Witness ==
    /\ fn = "App"
    /\ args.sleepRecords = <<>>
    /\ args.caffeineEntries = <<>>
    /\ ret.stats.totalRecords = 0
    /\ Len(ret.debtResult.daily) = 7
    /\ Len(ret.sleepTips) = 5

\* C17: a second call of any engine function with the same explicit
\* arguments returns what the first call returned, whatever the clock did in
\* between.
C17_Deterministic ==
    fn = "twice" => ret[2] = ret[1]

\* Exactly two components around one ':', each a non-empty run of digits.
TwoNumericComponents(timeStr) ==
    LET parts == Split(timeStr, ":")
    IN  /\ Len(parts) = 2
        /\ \A i \in 1..2 : Len(parts[i]) > 0 /\ IsDigits(parts[i])

\* C19: for a string that is not two numeric components around a ':',
\* parseTime returns no value but fails with InvalidFormat (a result with the
\* field error instead of the field value).
C19_InvalidFormat ==
    (fn = "parseTime" /\ ~TwoNumericComponents(args.timeStr)) =>
        /\ DOMAIN ret = {"error"}
        /\ ret.error = "InvalidFormat"

\* C20: calculateCaffeineLevel never returns a negative level, whatever the
\* amounts of the entries.
C20_NonNegativeLevel ==
    fn = "calculateCaffeineLevel" => ret >= 0

\* A step of useSleepState that is the operation `name` (not the clock).
IsCall(name) == fn' = name /\ env'.now = env.now

\* The stored records of ret keep their hours in the step.
HoursKept ==
    \A i \in 1..Len(ret.sleepRecords), j \in 1..Len(ret'.sleepRecords) :
        ret.sleepRecords[i].id = ret'.sleepRecords[j].id
            => ret'.sleepRecords[j].hoursSlept = ret.sleepRecords[i].hoursSlept

\* Every stored record has the hours from its bedtime to its wake time, a
\* wake time at or before the bedtime being the next day's.
HoursFromTimes ==
    \A i \in 1..Len(ret.sleepRecords) :
        LET r == ret.sleepRecords[i]
            d == MinuteOfDay(r.wakeTime) - MinuteOfDay(r.bedtime)
            diff == IF d <= 0 THEN d + 1440 ELSE d
        IN  2 * Abs(60 * r.hoursSlept - 100 * diff) <= 60

\* C21: in every state reached by addSleepRecord and removeSleepRecord from
\* the empty list each stored record's hoursSlept is calculateHoursSlept of
\* its bedtime and wake time, and no step changes the hoursSlept of a stored
\* record.
C21_HoursComputedOnce == []HoursFromTimes /\ [][HoursKept]_vars

C21_Witness ==
    /\ fn = "addSleepRecord"
    /\ Len(ret.sleepRecords) = 2
    /\ ret.sleepRecords[1].hoursSlept = 800
    /\ ret.sleepRecords[2].bedtime = ret.sleepRecords[2].wakeTime
    /\ ret.sleepRecords[2].hoursSlept = 2400

\* after is before with exactly the elements of the given id taken out, the
\* others unchanged and in the same order.
RemovedOnly(before, after, id) ==
    /\ \A j \in 1..Len(after) : after[j].id # id
    /\ \E pos \in [1..Len(after) -> 1..Len(before)] :
          /\ \A j \in 1..Len(after) : before[pos[j]] = after[j]
          /\ \A j, k \in 1..Len(after) : j < k => pos[j] < pos[k]
          /\ \A i \in 1..Len(before) :
                before[i].id # id => \E j \in 1..Len(after) : pos[j] = i

\* after is before with one element appended that has a new id.
AppendedOne(before, after) ==
    /\ Len(after) = Len(before) + 1
    /\ SubSeq(after, 1, Len(before)) = before
    /\ \A i \in 1..Len(before) : before[i].id # after[Len(after)].id

\* C22: an add appends exactly one new element and leaves the others as they
\* are, also when its date is already stored; a remove deletes exactly the
\* elements of the given id, keeps the others in order and does nothing for
\* an unknown id; clearCaffeineEntries empties the caffeine list only.
C22_FrameStep ==
    /\ IsCall("addSleepRecord") =>
          /\ AppendedOne(ret.sleepRecords, ret'.sleepRecords)
          /\ ret'.sleepRecords[Len(ret'.sleepRecords)].date = args'[1].date
          /\ ret'.sleepRecords[Len(ret'.sleepRecords)].bedtime = args'[1].bedtime
          /\ ret'.sleepRecords[Len(ret'.sleepRecords)].wakeTime = args'[1].wakeTime
          /\ ret'.caffeineEntries = ret.caffeineEntries
          /\ ret'.recommendedHours = ret.recommendedHours
    /\ IsCall("addCaffeineEntry") =>
          /\ AppendedOne(ret.caffeineEntries, ret'.caffeineEntries)
          /\ ret'.caffeineEntries[Len(ret'.caffeineEntries)].amountMg = args'[1].amountMg
          /\ ret'.caffeineEntries[Len(ret'.caffeineEntries)].timestamp = env.now
          /\ ret'.sleepRecords = ret.sleepRecords
          /\ ret'.recommendedHours = ret.recommendedHours
    /\ IsCall("removeSleepRecord") =>
          /\ RemovedOnly(ret.sleepRecords, ret'.sleepRecords, args'[1])
          /\ (\A i \in 1..Len(ret.sleepRecords) : ret.sleepRecords[i].id # args'[1])
                => ret' = ret
          /\ ret'.caffeineEntries = ret.caffeineEntries
          /\ ret'.recommendedHours = ret.recommendedHours
    /\ IsCall("removeCaffeineEntry") =>
          /\ RemovedOnly(ret.caffeineEntries, ret'.caffeineEntries, args'[1])
          /\ (\A i \in 1..Len(ret.caffeineEntries) : ret.caffeineEntries[i].id # args'[1])
                => ret' = ret
          /\ ret'.sleepRecords = ret.sleepRecords
          /\ ret'.recommendedHours = ret.recommendedHours
    /\ IsCall("clearCaffeineEntries") =>
          /\ ret'.caffeineEntries = <<>>
          /\ ret'.sleepRecords = ret.sleepRecords
          /\ ret'.recommendedHours = ret.recommendedHours

C22_Frame == [][C22_FrameStep]_vars

\* A second record of a stored date was added, then the first one removed.
C22_Witness ==
    /\ fn = "removeSleepRecord"
    /\ args = <<1>>
    /\ Len(ret.sleepRecords) = 1
    /\ ret.sleepRecords[1].id = 2
    /\ ret.sleepRecords[1].bedtime = ClockStr(0, 0)
    /\ ret.sleepRecords[1].date = DateStr([year |-> 2024, month |-> 3, date |-> 5])

\* C26: from the default of 8 hours the stored recommendedHours stays within
\* [1, 24] and above 0: setRecommendedHours stores 1 for less than 1, 24 for
\* more than 24 and the value asked otherwise.
C26_RecommendedClamped ==
    /\ [](ret.recommendedHours >= 100 /\ ret.recommendedHours <= 2400)
    /\ [][IsCall("setRecommendedHours") =>
            ret'.recommendedHours =
                IF args'[1] < 100 THEN 100
                ELSE IF args'[1] > 2400 THEN 2400
                ELSE args'[1]]_vars

C26_Witness ==
    /\ fn = "setRecommendedHours"
    /\ args = <<-100>>
    /\ ret.recommendedHours = 100

\* C25: the mean of 23:30 and 00:30 is 00:00, the mean of a single time is
\* that time, and the mean of every non-empty list of clock times is a
\* well-formed HH:mm.
C25_CircularMean ==
    (fn = "averageTimeStr" /\ Len(args.times) > 0) =>
        /\ WellFormedClock(ret)
        /\ Len(args.times) = 1 => ret = args.times[1]
        /\ args.times = <<ClockStr(23, 30), ClockStr(0, 30)>> => ret = ClockStr(0, 0)
        /\ args.times = <<ClockStr(0, 30), ClockStr(23, 30)>> => ret = ClockStr(0, 0)
        /\ args.times = <<ClockStr(23, 59), ClockStr(0, 1)>> => ret = ClockStr(0, 0)

C25_Witness ==
    /\ fn = "averageTimeStr"
    /\ args.times = <<ClockStr(23, 30), ClockStr(0, 30)>>
    /\ ret = ClockStr(0, 0)

\* C27: generateSleepTips returns between 6 and 8 tips for every stats value
\* and entry list.
C27_SixToEightTips ==
    fn = "generateSleepTips" => (Len(ret) >= 6 /\ Len(ret) <= 8)

\* C28: the chart of a timeline shows the points of the hour offsets 0
\* through 12.
C28_TwelveHourChart ==
    (fn = "CaffeineTracker" /\ args.entries # <<>>) =>
        /\ Len(ret) > 0
        /\ ret[1].hour = 0
        /\ ret[Len(ret)].hour = 1200

\* C23: analytics is unlocked only if an unlock was granted on the current
\* calendar date.
C23_UnlockedToday == ret.analyticsUnlocked => env.stored = env.today

\* C24: analytics is unlocked, and an unlock date stored, only after an ad
\* was shown and dismissed.
C24_UnlockedByDismissedAd ==
    /\ ret.analyticsUnlocked => env.dismissed
    /\ env.stored # NoDate => env.dismissed

\* C29: after a show has ended (dismissed, failedToShow or error), loading
\* becomes false again.
C29_LoadingClears ==
    [](fn \in {"dismissed", "failedToShow", "onError"} => <>(~ret.loading))

\* The onUnavailable of a call runs only within the call itself, and only
\* when the ad is unsupported or still loading.
UnavailableOnlyInCall ==
    \A i \in 1..Len(args') :
        LET before == IF i <= Len(args) THEN args[i].onUnavailable ELSE 0
        IN  args'[i].onUnavailable # before =>
               /\ fn' = "showInterstitialAd"
               /\ i = Len(args) + 1
               /\ args'[i].onUnavailable = 1
               /\ ~ret.adSupported \/ ~env.showSupported \/ ret.loading

\* C30: of no showInterstitialAd call both onUnavailable and onDismiss run,
\* onDismiss runs at most once, and onUnavailable runs only within the call,
\* when the ad is unsupported or loading.
C30_CallbacksOnce ==
    /\ [](\A i \in 1..Len(args) :
            /\ args[i].onDismiss <= 1
            /\ ~(args[i].onDismiss > 0 /\ args[i].onUnavailable > 0))
    /\ [][UnavailableOnlyInCall]_vars

\* Two overlapping shows: an event of the first ran the second's onDismiss.
C30_Witness ==
    /\ fn \in {"dismissed", "failedToShow", "onError"}
    /\ Len(args) = 2
    /\ env.shows[1] = 1
    /\ env.shows[2] = 0
    /\ args[1].onDismiss = 0
    /\ args[2].onDismiss = 1
    /\ ret.dismissCallbackRef = NoCallback

====
